---- MODULE Spec2Model ----
(***************************************************************************)
(* Model of the envelope codec of qr-generator-landing (utils/crypto.ts):  *)
(* validateEncryptionInput, encryptPayload and decryptPayload, with the    *)
(* platform functions they call (String.prototype.trim, TextEncoder,       *)
(* TextDecoder, btoa, atob, crypto.getRandomValues, PBKDF2, AES-GCM).      *)
(*                                                                         *)
(* Strings are sequences of UTF-16 code units, byte arrays are sequences   *)
(* of numbers 0..255.  The cryptographic primitives are idealised: PBKDF2  *)
(* is an injective function of (password bytes, salt), the random source   *)
(* never repeats an output, and AES-GCM is a stream cipher with a 16-byte  *)
(* tag that is recomputed and compared on decryption.                      *)
(***************************************************************************)
EXTENDS Integers, Sequences, FiniteSets, TLC

(***************************************************************************)
(* Program constants                                                       *)
(***************************************************************************)
SALT_LENGTH == 16
IV_LENGTH == 12
PASSWORD_MIN_LENGTH == 8
TAG_LENGTH == 16

\* the error strings of the code
ERR_EMPTY_PLAINTEXT == "EMPTY_PLAINTEXT"
ERR_MISSING_INPUT == "MISSING_INPUT"
WEAK_PASSWORD == "WEAK_PASSWORD"
ENCRYPTION_FAILED == "ENCRYPTION_FAILED"
DECRYPTION_FAILED == "DECRYPTION_FAILED"
INVALID_ENCRYPTED_DATA == "INVALID_ENCRYPTED_DATA"
NoError == "none"

(***************************************************************************)
(* Strings: String.prototype.trim, TextEncoder, TextDecoder                *)
(***************************************************************************)
\* ECMAScript WhiteSpace and LineTerminator code units, as trim() removes them
IsJsWhiteSpace(u) ==
    \/ u \in 9..13
    \/ u \in {32, 160, 5760, 8232, 8233, 8239, 8287, 12288, 65279}
    \/ u \in 8192..8202

\* plaintext.trim().length === 0
TrimIsEmpty(s) == \A i \in 1..Len(s) : IsJsWhiteSpace(s[i])

IsHighSurrogate(u) == u \in 55296..56319
IsLowSurrogate(u) == u \in 56320..57343

Utf8OfCodePoint(cp) ==
    IF cp < 128 THEN <<cp>>
    ELSE IF cp < 2048 THEN <<192 + (cp \div 64), 128 + (cp % 64)>>
    ELSE IF cp < 65536
        THEN <<224 + (cp \div 4096), 128 + ((cp \div 64) % 64), 128 + (cp % 64)>>
    ELSE <<240 + (cp \div 262144), 128 + ((cp \div 4096) % 64),
           128 + ((cp \div 64) % 64), 128 + (cp % 64)>>

\* new TextEncoder().encode(s): a surrogate pair is one code point, a lone
\* surrogate is encoded as U+FFFD
RECURSIVE EncodeFrom(_, _)
EncodeFrom(s, i) ==
    IF i > Len(s) THEN <<>>
    ELSE IF IsHighSurrogate(s[i]) /\ i < Len(s) /\ IsLowSurrogate(s[i + 1])
        THEN Utf8OfCodePoint(65536 + (s[i] - 55296) * 1024 + (s[i + 1] - 56320))
                 \o EncodeFrom(s, i + 2)
    ELSE IF IsHighSurrogate(s[i]) \/ IsLowSurrogate(s[i])
        THEN <<239, 191, 189>> \o EncodeFrom(s, i + 1)
    ELSE Utf8OfCodePoint(s[i]) \o EncodeFrom(s, i + 1)

TextEncoderEncode(s) == EncodeFrom(s, 1)

\* the UTF-8 decoder of the Encoding standard: for a lead byte, the number of
\* continuation bytes needed and the allowed range of the first of them
Utf8Need(x) ==
    IF x \in 194..223 THEN 1
    ELSE IF x \in 224..239 THEN 2
    ELSE IF x \in 240..244 THEN 3
    ELSE 0

Utf8Lower(x) == IF x = 224 THEN 160 ELSE IF x = 240 THEN 144 ELSE 128
Utf8Upper(x) == IF x = 237 THEN 159 ELSE IF x = 244 THEN 143 ELSE 191

\* how many of the `need` continuation bytes after position i are acceptable
RECURSIVE Utf8Matched(_, _, _, _)
Utf8Matched(b, i, k, need) ==
    IF k > need \/ i + k > Len(b) THEN k - 1
    ELSE LET lo == IF k = 1 THEN Utf8Lower(b[i]) ELSE 128
             hi == IF k = 1 THEN Utf8Upper(b[i]) ELSE 191
         IN IF b[i + k] \in lo..hi THEN Utf8Matched(b, i, k + 1, need) ELSE k - 1

Utf8CodePointAt(b, i, need) ==
    IF need = 1 THEN (b[i] - 192) * 64 + (b[i + 1] - 128)
    ELSE IF need = 2
        THEN (b[i] - 224) * 4096 + (b[i + 1] - 128) * 64 + (b[i + 2] - 128)
    ELSE (b[i] - 240) * 262144 + (b[i + 1] - 128) * 4096
             + (b[i + 2] - 128) * 64 + (b[i + 3] - 128)

Utf16OfCodePoint(cp) ==
    IF cp < 65536 THEN <<cp>>
    ELSE <<55296 + ((cp - 65536) \div 1024), 56320 + ((cp - 65536) % 1024)>>

\* the decoder in replacement mode (fatal is not set): every ill-formed
\* subsequence becomes one U+FFFD
RECURSIVE DecodeFrom(_, _)
DecodeFrom(b, i) ==
    IF i > Len(b) THEN <<>>
    ELSE IF b[i] < 128 THEN <<b[i]>> \o DecodeFrom(b, i + 1)
    ELSE IF Utf8Need(b[i]) = 0 THEN <<65533>> \o DecodeFrom(b, i + 1)
    ELSE LET need == Utf8Need(b[i])
             got == Utf8Matched(b, i, 1, need)
         IN IF got = need
                THEN Utf16OfCodePoint(Utf8CodePointAt(b, i, need))
                         \o DecodeFrom(b, i + 1 + need)
                ELSE <<65533>> \o DecodeFrom(b, i + 1 + got)

\* whether the decoder meets no ill-formed subsequence in b
RECURSIVE WellFormedFrom(_, _)
WellFormedFrom(b, i) ==
    IF i > Len(b) THEN TRUE
    ELSE IF b[i] < 128 THEN WellFormedFrom(b, i + 1)
    ELSE IF Utf8Need(b[i]) = 0 THEN FALSE
    ELSE Utf8Matched(b, i, 1, Utf8Need(b[i])) = Utf8Need(b[i])
             /\ WellFormedFrom(b, i + 1 + Utf8Need(b[i]))

IsValidUtf8(b) == WellFormedFrom(b, 1)

\* new TextDecoder().decode(b): replacement mode, and ignoreBOM is not set,
\* so a leading U+FEFF is dropped from the output
TextDecoderDecode(b) ==
    LET s == DecodeFrom(b, 1)
    IN IF Len(s) > 0 /\ s[1] = 65279 THEN Tail(s) ELSE s

(***************************************************************************)
(* Base64: btoa and atob                                                   *)
(***************************************************************************)
B64Char(n) ==
    IF n < 26 THEN 65 + n
    ELSE IF n < 52 THEN 97 + (n - 26)
    ELSE IF n < 62 THEN 48 + (n - 52)
    ELSE IF n = 62 THEN 43
    ELSE 47

\* -1 for a character outside the Base64 alphabet
B64Value(c) ==
    IF c \in 65..90 THEN c - 65
    ELSE IF c \in 97..122 THEN c - 97 + 26
    ELSE IF c \in 48..57 THEN c - 48 + 52
    ELSE IF c = 43 THEN 62
    ELSE IF c = 47 THEN 63
    ELSE -1

RECURSIVE BtoaFrom(_, _)
BtoaFrom(b, i) ==
    IF i > Len(b) THEN <<>>
    ELSE IF i = Len(b)
        THEN <<B64Char(b[i] \div 4), B64Char((b[i] % 4) * 16), 61, 61>>
    ELSE IF i + 1 = Len(b)
        THEN <<B64Char(b[i] \div 4),
               B64Char((b[i] % 4) * 16 + (b[i + 1] \div 16)),
               B64Char((b[i + 1] % 16) * 4), 61>>
    ELSE <<B64Char(b[i] \div 4),
           B64Char((b[i] % 4) * 16 + (b[i + 1] \div 16)),
           B64Char((b[i + 1] % 16) * 4 + (b[i + 2] \div 64)),
           B64Char(b[i + 2] % 64)>> \o BtoaFrom(b, i + 3)

\* btoa(String.fromCharCode(...bytes))
Btoa(b) == BtoaFrom(b, 1)

IsAsciiWhitespace(c) == c \in {9, 10, 12, 13, 32}

\* atob step 1: remove ASCII whitespace
StripAsciiWhitespace(s) == SelectSeq(s, LAMBDA c : ~IsAsciiWhitespace(c))

\* atob step 2: a length divisible by 4 may end in one or two '='
StripB64Padding(s) ==
    IF Len(s) > 0 /\ Len(s) % 4 = 0
        THEN IF s[Len(s)] = 61
                 THEN IF s[Len(s) - 1] = 61 THEN SubSeq(s, 1, Len(s) - 2)
                      ELSE SubSeq(s, 1, Len(s) - 1)
                 ELSE s
        ELSE s

RECURSIVE AtobFrom(_, _)
AtobFrom(v, i) ==
    IF i > Len(v) THEN <<>>
    ELSE IF i + 1 = Len(v)
        THEN <<v[i] * 4 + (v[i + 1] \div 16)>>
    ELSE IF i + 2 = Len(v)
        THEN <<v[i] * 4 + (v[i + 1] \div 16),
               (v[i + 1] % 16) * 16 + (v[i + 2] \div 4)>>
    ELSE <<v[i] * 4 + (v[i + 1] \div 16),
           (v[i + 1] % 16) * 16 + (v[i + 2] \div 4),
           (v[i + 2] % 4) * 64 + v[i + 3]>> \o AtobFrom(v, i + 4)

\* atob(s) followed by the charCodeAt loop: ok = FALSE when atob throws
Atob(s) ==
    LET t == StripB64Padding(StripAsciiWhitespace(s))
    IN IF Len(t) % 4 = 1 \/ \E i \in 1..Len(t) : B64Value(t[i]) = -1
           THEN [ok |-> FALSE, bytes |-> <<>>]
           ELSE [ok |-> TRUE,
                 bytes |-> AtobFrom([i \in 1..Len(t) |-> B64Value(t[i])], 1)]

(***************************************************************************)
(* Idealised cryptographic primitives                                      *)
(***************************************************************************)
\* crypto.getRandomValues(new Uint8Array(length)) for the generator's n-th
\* output: outputs of different n differ in every byte
generateRandomBytes(n, length) == [i \in 1..length |-> (n * 37 + i * 5) % 256]

RECURSIVE WeightedSum(_, _)
WeightedSum(b, i) ==
    IF i > Len(b) THEN 0 ELSE (i * b[i] + WeightedSum(b, i + 1)) % 256

\* crypto.subtle.importKey('raw', TextEncoder().encode(password), 'PBKDF2')
importKey(password) == TextEncoderEncode(password)

\* crypto.subtle.deriveKey(PBKDF2, salt, 100000, SHA-256): the key is the
\* pair it is derived from, so different pairs give different keys
Pbkdf2(keyMaterial, salt) == [pw |-> keyMaterial, salt |-> salt]

\* faulty variant: the key is derived with a constant salt instead of the call's
deriveKeyConstantSalt(keyMaterial, salt) == Pbkdf2(keyMaterial, <<>>)

deriveKey(keyMaterial, salt) == Pbkdf2(keyMaterial, salt)

ByteAt(b, j) == IF j \in 1..Len(b) THEN b[j] ELSE 0

KeyByte(key, j) ==
    (WeightedSum(key.pw, 1) + ByteAt(key.salt, ((j - 1) % TAG_LENGTH) + 1)) % 256

KeyStream(key, iv, i) ==
    (KeyByte(key, i) + ByteAt(iv, ((i - 1) % IV_LENGTH) + 1) + 7 * i) % 256

RECURSIVE LaneSum(_, _, _)
LaneSum(ct, j, i) ==
    IF i > Len(ct) THEN 0 ELSE (ct[i] + LaneSum(ct, j, i + TAG_LENGTH)) % 256

\* the GCM tag over (key, iv, ciphertext): every byte of the salt, the nonce
\* and the ciphertext enters one byte of the tag
GcmTag(key, iv, ct) ==
    [j \in 1..TAG_LENGTH |->
        (KeyByte(key, j) + ByteAt(iv, j) + LaneSum(ct, j, j) + Len(ct)) % 256]

\* crypto.subtle.encrypt({name: 'AES-GCM', iv}, key, data): ciphertext of the
\* length of data, followed by the 16-byte tag
AesGcmEncrypt(key, iv, data) ==
    LET ct == [i \in 1..Len(data) |-> (data[i] + KeyStream(key, iv, i)) % 256]
    IN ct \o GcmTag(key, iv, ct)

\* faulty variant: a cipher mode without authentication, the tag is cut off unchecked
AesCtrDecrypt(key, iv, data) ==
    IF Len(data) < TAG_LENGTH THEN [ok |-> FALSE, data |-> <<>>]
    ELSE [ok |-> TRUE,
          data |-> [i \in 1..(Len(data) - TAG_LENGTH) |->
                       (data[i] + 256 - KeyStream(key, iv, i)) % 256]]

\* crypto.subtle.decrypt: throws (ok = FALSE) unless the tag verifies
AesGcmDecrypt(key, iv, data) ==
    IF Len(data) < TAG_LENGTH THEN [ok |-> FALSE, data |-> <<>>]
    ELSE LET n == Len(data) - TAG_LENGTH
             ct == SubSeq(data, 1, n)
             tag == SubSeq(data, n + 1, Len(data))
         IN IF tag = GcmTag(key, iv, ct)
                THEN [ok |-> TRUE,
                      data |-> [i \in 1..n |->
                                   (ct[i] + 256 - KeyStream(key, iv, i)) % 256]]
                ELSE [ok |-> FALSE, data |-> <<>>]

(***************************************************************************)
(* The code of utils/crypto.ts                                             *)
(***************************************************************************)
\* faulty variant: the password is checked before the plaintext
validateEncryptionInputPasswordFirst(plaintext, password) ==
    IF Len(password) = 0 \/ Len(password) < PASSWORD_MIN_LENGTH
        THEN [isValid |-> FALSE, errorMessage |-> WEAK_PASSWORD]
    ELSE IF Len(plaintext) = 0 \/ TrimIsEmpty(plaintext)
        THEN [isValid |-> FALSE, errorMessage |-> ERR_EMPTY_PLAINTEXT]
    ELSE [isValid |-> TRUE, errorMessage |-> NoError]

validateEncryptionInput(plaintext, password) ==
    IF Len(plaintext) = 0 \/ TrimIsEmpty(plaintext)
        THEN [isValid |-> FALSE, errorMessage |-> ERR_EMPTY_PLAINTEXT]
    ELSE IF Len(password) = 0 \/ Len(password) < PASSWORD_MIN_LENGTH
        THEN [isValid |-> FALSE, errorMessage |-> WEAK_PASSWORD]
    ELSE [isValid |-> TRUE, errorMessage |-> NoError]

\* Uint8Array.prototype.slice(from, to), zero-based, clipped to the array
JsSlice(b, from, to) ==
    LET lo == IF from > Len(b) THEN Len(b) ELSE from
        hi == IF to > Len(b) THEN Len(b) ELSE to
    IN SubSeq(b, lo + 1, hi)

\* faulty variant: the nonce is written in front of the salt
CombineEnvelopeIvFirst(salt, iv, encryptedBuffer) == iv \o salt \o encryptedBuffer

\* encryptPayload: combinedBuffer.set(salt, 0); .set(iv, salt.length);
\* .set(encrypted, salt.length + iv.length)
CombineEnvelope(salt, iv, encryptedBuffer) == salt \o iv \o encryptedBuffer

\* decryptPayload: the three slices of combinedBuffer
SplitEnvelope(combinedBuffer) ==
    [salt |-> JsSlice(combinedBuffer, 0, SALT_LENGTH),
     iv |-> JsSlice(combinedBuffer, SALT_LENGTH, SALT_LENGTH + IV_LENGTH),
     encrypted |-> JsSlice(combinedBuffer, SALT_LENGTH + IV_LENGTH,
                           Len(combinedBuffer))]

\* faulty variant: the length check is missing
DecryptPrecheckNoLength(encryptedData, password) ==
    IF Len(encryptedData) = 0 \/ Len(password) = 0
        THEN [ok |-> FALSE, error |-> ERR_MISSING_INPUT, bytes |-> <<>>]
    ELSE IF Len(password) < PASSWORD_MIN_LENGTH
        THEN [ok |-> FALSE, error |-> WEAK_PASSWORD, bytes |-> <<>>]
    ELSE LET decoded == Atob(encryptedData)
         IN IF ~decoded.ok
                THEN [ok |-> FALSE, error |-> INVALID_ENCRYPTED_DATA, bytes |-> <<>>]
            ELSE [ok |-> TRUE, error |-> NoError, bytes |-> decoded.bytes]

\* faulty variant: atob and the length check come before the password check
DecryptPrecheckBase64First(encryptedData, password) ==
    IF Len(encryptedData) = 0 \/ Len(password) = 0
        THEN [ok |-> FALSE, error |-> ERR_MISSING_INPUT, bytes |-> <<>>]
    ELSE LET decoded == Atob(encryptedData)
         IN IF ~decoded.ok
                THEN [ok |-> FALSE, error |-> INVALID_ENCRYPTED_DATA, bytes |-> <<>>]
            ELSE IF Len(decoded.bytes) < SALT_LENGTH + IV_LENGTH + TAG_LENGTH
                THEN [ok |-> FALSE, error |-> INVALID_ENCRYPTED_DATA, bytes |-> <<>>]
            ELSE IF Len(password) < PASSWORD_MIN_LENGTH
                THEN [ok |-> FALSE, error |-> WEAK_PASSWORD, bytes |-> <<>>]
            ELSE [ok |-> TRUE, error |-> NoError, bytes |-> decoded.bytes]

\* decryptPayload up to the length check: the error it returns, or the
\* decoded bytes
DecryptPrecheck(encryptedData, password) ==
    IF Len(encryptedData) = 0 \/ Len(password) = 0
        THEN [ok |-> FALSE, error |-> ERR_MISSING_INPUT, bytes |-> <<>>]
    ELSE IF Len(password) < PASSWORD_MIN_LENGTH
        THEN [ok |-> FALSE, error |-> WEAK_PASSWORD, bytes |-> <<>>]
    ELSE LET decoded == Atob(encryptedData)
         IN IF ~decoded.ok
                THEN [ok |-> FALSE, error |-> INVALID_ENCRYPTED_DATA, bytes |-> <<>>]
            ELSE IF Len(decoded.bytes) < SALT_LENGTH + IV_LENGTH + TAG_LENGTH
                THEN [ok |-> FALSE, error |-> INVALID_ENCRYPTED_DATA, bytes |-> <<>>]
            ELSE [ok |-> TRUE, error |-> NoError, bytes |-> decoded.bytes]

\* encryptPayload: the two random draws of a call, made when the generator
\* has produced n outputs
FreshSalt(n) == generateRandomBytes(n + 1, SALT_LENGTH)
FreshIv(n) == generateRandomBytes(n + 2, IV_LENGTH)

\* the results the two functions return
EncFailure(msg) == [success |-> FALSE, value |-> <<>>, error |-> msg]
EncSuccess(encryptedData) ==
    [success |-> TRUE, value |-> encryptedData, error |-> NoError]
DecFailure(msg) == [success |-> FALSE, value |-> <<>>, error |-> msg]
DecSuccess(plaintext) == [success |-> TRUE, value |-> plaintext, error |-> NoError]
NoResult == [success |-> FALSE, value |-> <<>>, error |-> "pending"]

(***************************************************************************)
(* The code of utils/totp.ts: the secret normalizer                        *)
(***************************************************************************)
\* String.prototype.toUpperCase for code units below U+0100 (the inputs
\* hold no others): "ß" becomes "SS", "ÿ" and "µ" leave Latin-1
ToUpperCase(s) ==
    LET UpperCaseOfUnit(u) ==
            IF u \in 97..122 THEN <<u - 32>>
            ELSE IF u = 223 THEN <<83, 83>>
            ELSE IF u = 181 THEN <<924>>
            ELSE IF u = 255 THEN <<376>>
            ELSE IF u \in 224..254 /\ u # 247 THEN <<u - 32>>
            ELSE <<u>>
        RECURSIVE ToUpperCaseFrom(_)
        ToUpperCaseFrom(i) ==
            IF i > Len(s) THEN <<>> ELSE UpperCaseOfUnit(s[i]) \o ToUpperCaseFrom(i + 1)
    IN ToUpperCaseFrom(1)

\* input.replace(/[\s\-_]/g, '').toUpperCase(); \s is the set trim() removes
CleanedText(input) ==
    ToUpperCase(SelectSeq(input, LAMBDA u : ~(IsJsWhiteSpace(u) \/ u = 45 \/ u = 95)))

IsBase32Char(u) == u \in 65..90 \/ u \in 50..55

\* /^[A-Z2-7]+=*$/.test(s)
IsBase32Text(s) ==
    \E k \in 1..Len(s) :
        /\ \A i \in 1..k : IsBase32Char(s[i])
        /\ \A i \in (k + 1)..Len(s) : s[i] = 61

IsHexDigit(u) == u \in 48..57 \/ u \in 65..70 \/ u \in 97..102

\* /^[0-9A-F]+$/i.test(s)
IsHexText(s) == Len(s) > 0 /\ \A i \in 1..Len(s) : IsHexDigit(s[i])

\* faulty variant: the hexadecimal test is made before the canonical one
detectSecretFormatHexFirst(input) ==
    LET cleaned == CleanedText(input)
    IN IF IsHexText(cleaned) THEN "hex"
       ELSE IF IsBase32Text(cleaned) THEN "base32"
       ELSE IF \E i \in 1..Len(input) : input[i] = 32 THEN "words"
       ELSE "mixed"

detectSecretFormat(input) ==
    LET cleaned == CleanedText(input)
        \* input.split(' ').length
        SplitLength == Len(SelectSeq(input, LAMBDA u : u = 32)) + 1
    IN IF IsBase32Text(cleaned) THEN "base32"
       ELSE IF IsHexText(cleaned) THEN "hex"
       ELSE IF (\E i \in 1..Len(input) : input[i] = 32) /\ SplitLength > 1
           THEN "words"
       ELSE "mixed"

HexDigitValue(u) ==
    IF u \in 48..57 THEN u - 48
    ELSE IF u \in 65..70 THEN u - 55
    ELSE u - 87

\* 'ABCDEFGHIJKLMNOPQRSTUVWXYZ234567'
base32Chars == [i \in 1..32 |-> IF i <= 26 THEN 64 + i ELSE 23 + i]

\* x << k on 32-bit integers, 1 <= k <= 31: the bits above bit 31 - k are
\* lost and bit 31 - k becomes the sign
Int32Shl(x, k) ==
    LET low == x % (2 ^ (31 - k))
        top == (x \div (2 ^ (31 - k))) % 2
    IN IF top = 1 THEN (low * (2 ^ k) - 2147483647) - 1 ELSE low * (2 ^ k)

\* x & 31
And31(x) == x % 32

\* while (bitsLeft >= 5) { result += base32Chars[(buffer >> (bitsLeft - 5)) & 31];
\*                         bitsLeft -= 5 }
RECURSIVE EmitSymbols(_, _)
EmitSymbols(buffer, bitsLeft) ==
    LET \* x >> k, the shift that keeps the sign
        Int32Sar(x, k) == x \div (2 ^ k)
    IN IF bitsLeft >= 5
           THEN <<base32Chars[And31(Int32Sar(buffer, bitsLeft - 5)) + 1]>>
                    \o EmitSymbols(buffer, bitsLeft - 5)
           ELSE <<>>

\* faulty variant: the bits that are left at the end are dropped
PackBytesNoTail(bytes, i, buffer, bitsLeft) ==
    LET RECURSIVE Go(_, _, _)
        Go(j, buf, left) ==
            IF j > Len(bytes) THEN <<>>
            ELSE LET shifted == Int32Shl(buf, 8) + bytes[j]
                 IN EmitSymbols(shifted, left + 8) \o Go(j + 1, shifted, (left + 8) % 5)
    IN Go(i, buffer, bitsLeft)

\* the loop over the bytes that hexToBase32 and wordsToBase32 both hold, with
\* the final partial symbol; the low eight bits of buffer << 8 are zero, so
\* "| byte" adds the byte
RECURSIVE PackBytes(_, _, _, _)
PackBytes(bytes, i, buffer, bitsLeft) ==
    IF i > Len(bytes)
        THEN IF bitsLeft > 0
                 THEN <<base32Chars[And31(Int32Shl(buffer, 5 - bitsLeft)) + 1]>>
                 ELSE <<>>
        ELSE LET shifted == Int32Shl(buffer, 8) + bytes[i]
             IN EmitSymbols(shifted, bitsLeft + 8)
                    \o PackBytes(bytes, i + 1, shifted, (bitsLeft + 8) % 5)

\* the bytes are parseInt(hex.substr(i, 2), 16) for i = 0, 2, 4, ...: substr
\* gives the one digit that is left at the end of a string of odd length
hexToBase32(hex) ==
    LET bytes == [k \in 1..((Len(hex) + 1) \div 2) |->
                     IF 2 * k <= Len(hex)
                         THEN HexDigitValue(hex[2 * k - 1]) * 16
                                  + HexDigitValue(hex[2 * k])
                         ELSE HexDigitValue(hex[2 * k - 1])]
    IN PackBytes(bytes, 1, 0, 0)

\* faulty variant: the text is not converted to upper case
wordsToBase32KeepCase(words) ==
    LET combined == SelectSeq(words, LAMBDA u : ~IsJsWhiteSpace(u))
    IN IF IsBase32Text(combined) THEN combined
       ELSE PackBytes(TextEncoderEncode(combined), 1, 0, 0)

wordsToBase32(words) ==
    LET combined == ToUpperCase(SelectSeq(words, LAMBDA u : ~IsJsWhiteSpace(u)))
    IN IF IsBase32Text(combined) THEN combined
       ELSE PackBytes(TextEncoderEncode(combined), 1, 0, 0)

\* faulty variant: the canonical branch packs the cleaned text like the word branch
cleanTOTPSecretRepack(secret) ==
    LET format == detectSecretFormat(secret)
        cleaned == CleanedText(secret)
    IN IF format = "base32" THEN PackBytes(TextEncoderEncode(cleaned), 1, 0, 0)
       ELSE IF format = "hex" THEN hexToBase32(cleaned)
       ELSE IF format = "words" THEN wordsToBase32(secret)
       ELSE cleaned

\* neither hexToBase32 nor wordsToBase32 throws, so no catch block runs; in
\* the mixed branch the two tests repeat those of detectSecretFormat
cleanTOTPSecret(secret) ==
    LET format == detectSecretFormat(secret)
        cleaned == CleanedText(secret)
    IN IF format = "base32" THEN cleaned
       ELSE IF format = "hex" THEN hexToBase32(cleaned)
       ELSE IF format = "words" THEN wordsToBase32(secret)
       ELSE IF IsBase32Text(cleaned) THEN cleaned
       ELSE IF IsHexText(cleaned) THEN hexToBase32(cleaned)
       ELSE cleaned

(***************************************************************************)
(* The code of utils/totp.ts: parseOTPAuthURI, with new URL(uri) and       *)
(* URLSearchParams as the URL standard defines them for the strings of     *)
(* the model (no host in brackets, no "file:" URL, no '^' in a path)       *)
(***************************************************************************)
\* the first index from `from` on at which s holds a code unit of chars,
\* Len(s) + 1 when there is none
FirstIn(s, from, chars) ==
    IF \E i \in from..Len(s) : s[i] \in chars
        THEN CHOOSE i \in from..Len(s) :
                 s[i] \in chars /\ \A j \in from..(i - 1) : s[j] \notin chars
        ELSE Len(s) + 1

StartsWith(s, prefix) ==
    Len(s) >= Len(prefix) /\ SubSeq(s, 1, Len(prefix)) = prefix

IsAsciiDigit(u) == u \in 48..57

AsciiLowerCase(s) == [i \in 1..Len(s) |-> IF s[i] \in 65..90 THEN s[i] + 32 ELSE s[i]]

\* s.split(sep): the pieces between the separators
Split(s, sep) ==
    LET RECURSIVE SplitFrom(_)
        SplitFrom(from) ==
            LET at == FirstIn(s, from, {sep})
            IN IF at > Len(s) THEN <<SubSeq(s, from, Len(s))>>
               ELSE <<SubSeq(s, from, at - 1)>> \o SplitFrom(at + 1)
    IN SplitFrom(1)

RECURSIVE JoinFrom(_, _, _)
JoinFrom(parts, sep, i) ==
    IF i > Len(parts) THEN <<>>
    ELSE IF i = Len(parts) THEN parts[i]
    ELSE parts[i] \o <<sep>> \o JoinFrom(parts, sep, i + 1)

\* percent-encoding after UTF-8 encoding: the bytes of the set, and every
\* byte above 0x7E, become %XX
PercentEncode(s, set) ==
    LET UpperHexDigit(d) == IF d < 10 THEN 48 + d ELSE 55 + d
        RECURSIVE PercentEncodeFrom(_, _)
        PercentEncodeFrom(bytes, i) ==
            IF i > Len(bytes) THEN <<>>
            ELSE (IF bytes[i] \in set \/ bytes[i] > 126 \/ bytes[i] < 32
                      THEN <<37, UpperHexDigit(bytes[i] \div 16),
                             UpperHexDigit(bytes[i] % 16)>>
                      ELSE <<bytes[i]>>)
                 \o PercentEncodeFrom(bytes, i + 1)
    IN PercentEncodeFrom(TextEncoderEncode(s), 1)

\* the query percent-encode set: space " # < >
QueryEncodeSet == {32, 34, 35, 60, 62}

\* the authority of a URL: credentials up to the last '@', then the host and
\* after a ':' the port; the host of a URL that is not special is opaque
AuthorityParse(authority, special) ==
    LET Failure == [ok |-> FALSE, hostname |-> <<>>]
        \* NUL tab LF CR space # / : < > ? @ [ \ ] ^ |
        ForbiddenHostCodePoints ==
            {0, 9, 10, 13, 32, 35, 47, 58, 60, 62, 63, 64, 91, 92, 93, 94, 124}
        \* the decimal value of a port, -1 when it is no port
        RECURSIVE DecimalValue(_, _, _)
        DecimalValue(port, i, acc) ==
            IF i > Len(port) THEN acc
            ELSE IF ~IsAsciiDigit(port[i]) \/ acc > 65535 THEN -1
            ELSE DecimalValue(port, i + 1, acc * 10 + (port[i] - 48))
        HostAndPort(at, hostport, colon, host, port) ==
            IF at > 0 /\ hostport = <<>> THEN Failure
            ELSE IF colon <= Len(hostport) /\ host = <<>> THEN Failure
            ELSE IF DecimalValue(port, 1, 0) \notin 0..65535 THEN Failure
            ELSE IF special /\ host = <<>> THEN Failure
            ELSE IF \E i \in 1..Len(host) : host[i] \in ForbiddenHostCodePoints
                THEN Failure
            ELSE IF special /\ \E i \in 1..Len(host) : host[i] \in {37, 127} \/ host[i] < 32
                THEN Failure
            ELSE [ok |-> TRUE,
                  hostname |-> IF special THEN AsciiLowerCase(host)
                               ELSE PercentEncode(host, {})]
        AfterCredentials(at, hostport, colon) ==
            HostAndPort(at, hostport, colon, SubSeq(hostport, 1, colon - 1),
                        SubSeq(hostport, colon + 1, Len(hostport)))
        FromLastAt(at) ==
            AfterCredentials(at, SubSeq(authority, at + 1, Len(authority)),
                             FirstIn(SubSeq(authority, at + 1, Len(authority)), 1, {58}))
    IN FromLastAt(IF \E i \in 1..Len(authority) : authority[i] = 64
                      THEN CHOOSE i \in 1..Len(authority) :
                               /\ authority[i] = 64
                               /\ \A j \in (i + 1)..Len(authority) : authority[j] # 64
                      ELSE 0)

\* the path segments with "." and ".." resolved, each percent-encoded with
\* the path percent-encode set: the query set and ? ` { }
RECURSIVE ResolveDots(_, _, _)
ResolveDots(segments, i, acc) ==
    IF i > Len(segments) THEN acc
    ELSE IF segments[i] = <<46, 46>>
        THEN LET popped == IF Len(acc) > 0 THEN SubSeq(acc, 1, Len(acc) - 1) ELSE acc
             IN ResolveDots(segments, i + 1,
                            IF i = Len(segments) THEN Append(popped, <<>>) ELSE popped)
    ELSE IF segments[i] = <<46>>
        THEN ResolveDots(segments, i + 1,
                         IF i = Len(segments) THEN Append(acc, <<>>) ELSE acc)
    ELSE ResolveDots(segments, i + 1,
                     Append(acc, PercentEncode(segments[i],
                                               QueryEncodeSet \cup {63, 96, 123, 125})))

\* new URL(uri) without a base: ok = FALSE when it throws. The parser goes
\* through the input once: scheme, authority, path, query, fragment
UrlParse(uri) ==
    LET IsAsciiAlpha(u) == u \in 65..90 \/ u \in 97..122
        \* http https ws wss ftp
        SpecialSchemes ==
            {<<104, 116, 116, 112>>, <<104, 116, 116, 112, 115>>, <<119, 115>>,
             <<119, 115, 115>>, <<102, 116, 112>>}
        UrlFailure == [ok |-> FALSE, protocol |-> <<>>, hostname |-> <<>>,
                       pathname |-> <<>>, search |-> <<>>]
        \* url.pathname of a path that starts with '/' (or is empty)
        PathnameOf(pathText) ==
            IF pathText = <<>> THEN <<>>
            ELSE <<47>> \o JoinFrom(ResolveDots(Split(Tail(pathText), 47), 1, <<>>),
                                    47, 1)
        Parsed(scheme, special, parsedHost, pathText, query) ==
            IF ~parsedHost.ok THEN UrlFailure
            ELSE [ok |-> TRUE,
                  protocol |-> scheme \o <<58>>,
                  hostname |-> parsedHost.hostname,
                  pathname |->
                      IF special /\ pathText = <<>> THEN <<47>>
                      ELSE IF StartsWith(pathText, <<47>>) \/ pathText = <<>>
                          THEN PathnameOf(pathText)
                      ELSE PercentEncode(pathText, {}),
                  search |->
                      IF query = <<>> THEN <<>>
                      ELSE <<63>> \o PercentEncode(query, QueryEncodeSet)]
        \* the path ends at '?' or '#', the query at '#'
        PathAndQuery(scheme, special, parsedHost, afterAuthority, pathEnd) ==
            Parsed(scheme, special, parsedHost,
                   SubSeq(afterAuthority, 1, pathEnd - 1),
                   IF pathEnd <= Len(afterAuthority) /\ afterAuthority[pathEnd] = 63
                       THEN SubSeq(afterAuthority, pathEnd + 1,
                                   FirstIn(afterAuthority, pathEnd, {35}) - 1)
                       ELSE <<>>)
        AfterAuthority(scheme, special, parsedHost, afterAuthority) ==
            PathAndQuery(scheme, special, parsedHost, afterAuthority,
                         FirstIn(afterAuthority, 1, {63, 35}))
        \* the authority from authorityAt to authorityEnd; 0: there is none
        Authority(scheme, special, rest, authorityAt, authorityEnd) ==
            IF authorityAt = 0
                THEN AfterAuthority(scheme, special,
                                    [ok |-> TRUE, hostname |-> <<>>], rest)
                ELSE AfterAuthority(
                         scheme, special,
                         AuthorityParse(SubSeq(rest, authorityAt, authorityEnd - 1),
                                        special),
                         SubSeq(rest, authorityEnd, Len(rest)))
        AuthorityFrom(scheme, special, slashes, rest, authorityAt) ==
            Authority(scheme, special, rest, authorityAt,
                      IF authorityAt = 0 THEN 0
                      ELSE FirstIn(rest, authorityAt, slashes \cup {63, 35}))
        \* where the authority starts: after "//", for a special scheme
        \* after any run of slashes
        Slashes(scheme, special, slashes, rest) ==
            AuthorityFrom(scheme, special, slashes, rest,
                          IF special THEN FirstIn(rest, 1, (0..65535) \ slashes)
                          ELSE IF StartsWith(rest, <<47, 47>>) THEN 3
                          ELSE 0)
        AfterScheme(scheme, special, rest) ==
            Slashes(scheme, special, IF special THEN {47, 92} ELSE {47}, rest)
        Scheme(s, colon) ==
            IF \/ colon > Len(s)
               \/ colon = 1
               \/ ~IsAsciiAlpha(s[1])
               \/ \E i \in 2..(colon - 1) :
                      ~(IsAsciiAlpha(s[i]) \/ IsAsciiDigit(s[i]) \/ s[i] \in {43, 45, 46})
                THEN UrlFailure
                ELSE AfterScheme(AsciiLowerCase(SubSeq(s, 1, colon - 1)),
                                 AsciiLowerCase(SubSeq(s, 1, colon - 1)) \in SpecialSchemes,
                                 SubSeq(s, colon + 1, Len(s)))
        Stripped(s) == Scheme(s, FirstIn(s, 1, {58}))
        \* the parser's first step: leading and trailing C0 controls and
        \* spaces are removed, then every tab and newline
        keep == {i \in 1..Len(uri) : uri[i] > 32}
    IN Stripped(IF keep = {} THEN <<>>
                ELSE SelectSeq(SubSeq(uri, CHOOSE i \in keep : \A j \in keep : i <= j,
                                      CHOOSE i \in keep : \A j \in keep : i >= j),
                               LAMBDA u : u \notin {9, 10, 13}))

\* a name or a value of a query string: '+' is a space, then percent-decoding
\* (%XX with two hexadecimal digits is one byte) and UTF-8 decoding without
\* BOM handling
FormDecode(s) ==
    LET RECURSIVE PercentDecodeFrom(_, _)
        PercentDecodeFrom(bytes, i) ==
            IF i > Len(bytes) THEN <<>>
            ELSE IF bytes[i] = 37 /\ i + 2 <= Len(bytes)
                      /\ IsHexDigit(bytes[i + 1]) /\ IsHexDigit(bytes[i + 2])
                THEN <<HexDigitValue(bytes[i + 1]) * 16 + HexDigitValue(bytes[i + 2])>>
                         \o PercentDecodeFrom(bytes, i + 3)
            ELSE <<bytes[i]>> \o PercentDecodeFrom(bytes, i + 1)
    IN DecodeFrom(
           PercentDecodeFrom(
               TextEncoderEncode([i \in 1..Len(s) |-> IF s[i] = 43 THEN 32 ELSE s[i]]),
               1),
           1)

\* new URLSearchParams(url.search): the name-value pairs in their order
URLSearchParams(search) ==
    LET Pair(piece, eq) ==
            [name |-> FormDecode(SubSeq(piece, 1, eq - 1)),
             value |-> FormDecode(SubSeq(piece, eq + 1, Len(piece)))]
        Pairs(pieces) ==
            [k \in 1..Len(pieces) |-> Pair(pieces[k], FirstIn(pieces[k], 1, {61}))]
    IN Pairs(SelectSeq(Split(IF StartsWith(search, <<63>>) THEN Tail(search)
                             ELSE search, 38),
                       LAMBDA piece : piece # <<>>))

Undefined == [def |-> FALSE, v |-> <<>>]
Defined(v) == [def |-> TRUE, v |-> v]

\* params.get(name) || undefined: the value of the first pair of that name,
\* undefined when there is none or the value is ""
GetOrUndefined(params, name) ==
    IF \E k \in 1..Len(params) : params[k].name = name
        THEN LET k == CHOOSE k \in 1..Len(params) :
                          /\ params[k].name = name
                          /\ \A j \in 1..(k - 1) : params[j].name # name
             IN IF params[k].value = <<>> THEN Undefined ELSE Defined(params[k].value)
        ELSE Undefined

NaN == [nan |-> TRUE, n |-> 0]

\* parseInt(s): white space, a sign, "0x" for radix 16, then the digits, read
\* to the first character that is no digit of the radix
parseInt(s) ==
    LET RECURSIVE ParseDigits(_, _, _, _)
        ParseDigits(i, radix, acc, seen) ==
            IF /\ i <= Len(s) /\ IsHexDigit(s[i])
               /\ HexDigitValue(s[i]) < radix /\ acc < 100000
                THEN ParseDigits(i + 1, radix, acc * radix + HexDigitValue(s[i]), TRUE)
                ELSE IF seen THEN [nan |-> FALSE, n |-> acc] ELSE NaN
        Signed(negative, parsed) ==
            IF negative /\ ~parsed.nan THEN [nan |-> FALSE, n |-> 0 - parsed.n]
            ELSE parsed
        Digits(negative, from) ==
            Signed(negative,
                   IF from + 1 <= Len(s) /\ s[from] = 48 /\ s[from + 1] \in {88, 120}
                       THEN ParseDigits(from + 2, 16, 0, FALSE)
                       ELSE ParseDigits(from, 10, 0, FALSE))
        Sign(start) ==
            Digits(start <= Len(s) /\ s[start] = 45,
                   IF start <= Len(s) /\ s[start] \in {43, 45} THEN start + 1
                   ELSE start)
    IN Sign(FirstIn(s, 1, {u \in 0..65535 : ~IsJsWhiteSpace(u)}))

Null == [isNull |-> TRUE, secret |-> Undefined, issuer |-> Undefined,
         label |-> Undefined, algorithm |-> Undefined,
         digits |-> [def |-> FALSE, v |-> NaN], period |-> [def |-> FALSE, v |-> NaN]]

\* the object parseOTPAuthURI returns for a URL that passed its test
OtpAuthFields(url) ==
    LET \* params.get(name) ? parseInt(params.get(name)!) : undefined
        Number(value) ==
            IF value.def THEN [def |-> TRUE, v |-> parseInt(value.v)]
            ELSE [def |-> FALSE, v |-> NaN]
        Fields(params, pathParts) ==
            [isNull |-> FALSE,
             secret |-> GetOrUndefined(params, <<115, 101, 99, 114, 101, 116>>),
             issuer |-> GetOrUndefined(params, <<105, 115, 115, 117, 101, 114>>),
             label |-> IF Len(pathParts) > 0 THEN Defined(pathParts[1]) ELSE Undefined,
             algorithm |->
                 GetOrUndefined(params, <<97, 108, 103, 111, 114, 105, 116, 104, 109>>),
             digits |->
                 Number(GetOrUndefined(params, <<100, 105, 103, 105, 116, 115>>)),
             period |->
                 Number(GetOrUndefined(params, <<112, 101, 114, 105, 111, 100>>))]
    IN Fields(URLSearchParams(url.search),
              SelectSeq(Split(url.pathname, 47), LAMBDA part : part # <<>>))

\* faulty variant: the host is not compared
parseOTPAuthURIAnyHost(uri) ==
    LET Tested(url) ==
            IF ~url.ok THEN Null
            ELSE IF url.protocol # <<111, 116, 112, 97, 117, 116, 104, 58>> THEN Null
            ELSE OtpAuthFields(url)
    IN Tested(UrlParse(uri))

\* new URL throws into the catch block, which returns null
parseOTPAuthURI(uri) ==
    LET Tested(url) ==
            IF ~url.ok THEN Null
            ELSE IF url.protocol # <<111, 116, 112, 97, 117, 116, 104, 58>>
                     \/ url.hostname # <<116, 111, 116, 112>>
                THEN Null
            ELSE OtpAuthFields(url)
    IN Tested(UrlParse(uri))

(***************************************************************************)
(* generateTOTP and generateTOTPConfig of DynamicQRPanel                   *)
(***************************************************************************)
ERR_INVALID_URI == "INVALID_OTPAUTH_URI"
ERR_PARSE_SECRET == "CANNOT_PARSE_SECRET"

\* String.prototype.trim
JsTrim(s) ==
    LET keep == {i \in 1..Len(s) : ~IsJsWhiteSpace(s[i])}
    IN IF keep = {} THEN <<>>
       ELSE SubSeq(s, CHOOSE i \in keep : \A j \in keep : i <= j,
                      CHOOSE i \in keep : \A j \in keep : i >= j)

\* new TOTP({secret: cleanSecret}) of the otpauth library, which decodes the
\* string as Base32: a character outside A-Z and 2-7 before the trailing
\* '=' makes it throw; what it does with no character at all is left open
TotpAccepts(cleanSecret) ==
    LET text == SelectSeq(cleanSecret, LAMBDA u : u # 32)
        body == {i \in 1..Len(text) : \E j \in i..Len(text) : text[j] # 61}
    IN IF \E i \in body : ~IsBase32Char(text[i]) /\ text[i] \notin 97..122 THEN {FALSE}
       ELSE IF body = {} THEN {TRUE, FALSE}
       ELSE {TRUE}

NoConfig == [isNull |-> TRUE, secret |-> <<>>, label |-> <<>>, issuer |-> <<>>]

\* generateTOTP(secret, undefined, label, issuer): the configuration, or the
\* message of the error it throws
generateTOTP(secret, label, issuer, accepted) ==
    LET Made(cleanSecret) ==
            IF accepted
                THEN [cleanSecret |-> cleanSecret, error |-> NoError,
                      config |-> [isNull |-> FALSE, secret |-> cleanSecret,
                                  label |-> label, issuer |-> issuer]]
                ELSE [cleanSecret |-> cleanSecret, error |-> ERR_PARSE_SECRET,
                      config |-> NoConfig]
    IN Made(cleanTOTPSecret(secret))

\* 'User'
User == <<85, 115, 101, 114>>
\* 'QR Generator'
QRGenerator == <<81, 82, 32, 71, 101, 110, 101, 114, 97, 116, 111, 114>>

\* 'otpauth://'
OTPAUTH_PREFIX == <<111, 116, 112, 97, 117, 116, 104, 58, 47, 47>>

\* faulty variant: a URI without secret is given the secret of the examples
generateTOTPConfigExampleSecret(secret, localError, accepted) ==
    LET Generated(parsed, made) ==
            [parsed |-> parsed, cleanSecret |-> made.cleanSecret,
             totpConfig |-> made.config, localError |-> made.error]
        NotGenerated(parsed, error) ==
            [parsed |-> parsed, cleanSecret |-> <<>>, totpConfig |-> NoConfig,
             localError |-> error]
        FromUri(parsed) ==
            IF ~parsed.isNull
                THEN Generated(
                         parsed,
                         generateTOTP(
                             IF parsed.secret.def THEN parsed.secret.v
                             ELSE <<74, 66, 83, 87, 89, 51, 68, 80>>,
                             IF parsed.label.def THEN parsed.label.v ELSE User,
                             IF parsed.issuer.def THEN parsed.issuer.v ELSE QRGenerator,
                             parsed.secret.def => accepted))
                ELSE NotGenerated(parsed, ERR_INVALID_URI)
        Trimmed(trimmed) ==
            IF trimmed = <<>> THEN NotGenerated(Null, localError)
            ELSE IF StartsWith(trimmed, OTPAUTH_PREFIX)
                THEN FromUri(parseOTPAuthURI(trimmed))
            ELSE Generated(Null, generateTOTP(secret, User, QRGenerator, accepted))
    IN Trimmed(JsTrim(secret))

\* generateTOTPConfig: what it leaves in totpConfig and localError; accepted
\* is whether the library takes the cleaned secret
generateTOTPConfig(secret, localError, accepted) ==
    LET Generated(parsed, made) ==
            [parsed |-> parsed, cleanSecret |-> made.cleanSecret,
             totpConfig |-> made.config, localError |-> made.error]
        NotGenerated(parsed, error) ==
            [parsed |-> parsed, cleanSecret |-> <<>>, totpConfig |-> NoConfig,
             localError |-> error]
        \* const parsed = parseOTPAuthURI(secret.trim())
        FromUri(parsed) ==
            IF ~parsed.isNull /\ parsed.secret.def
                THEN Generated(
                         parsed,
                         generateTOTP(
                             parsed.secret.v,
                             IF parsed.label.def THEN parsed.label.v ELSE User,
                             IF parsed.issuer.def THEN parsed.issuer.v ELSE QRGenerator,
                             accepted))
                ELSE NotGenerated(parsed, ERR_INVALID_URI)
        Trimmed(trimmed) ==
            IF trimmed = <<>> THEN NotGenerated(Null, localError)
            ELSE IF StartsWith(trimmed, OTPAUTH_PREFIX)
                THEN FromUri(parseOTPAuthURI(trimmed))
            ELSE Generated(Null, generateTOTP(secret, User, QRGenerator, accepted))
    IN Trimmed(JsTrim(secret))

NonBlank(s) == \E i \in 1..Len(s) : ~IsJsWhiteSpace(s[i])

\* what encryptPayload(p, w) returns when it runs alone and draws salt and iv
EncryptAlone(p, w, salt, iv) ==
    IF ~NonBlank(p) THEN EncFailure(ERR_EMPTY_PLAINTEXT)
    ELSE IF Len(w) < 8 THEN EncFailure(WEAK_PASSWORD)
    ELSE EncSuccess(Btoa(salt \o iv \o
             AesGcmEncrypt(Pbkdf2(TextEncoderEncode(w), salt), iv,
                           TextEncoderEncode(p))))

\* what decryptPayload(e, w) returns when it runs alone, for a password of
\* valid length and a string that decodes to at least 44 bytes
DecryptAlone(e, w) ==
    LET b == Atob(e).bytes
        opened == AesGcmDecrypt(Pbkdf2(TextEncoderEncode(w), SubSeq(b, 1, 16)),
                                SubSeq(b, 17, 28), SubSeq(b, 29, Len(b)))
    IN IF ~Atob(e).ok \/ Len(b) < 44 THEN DecFailure(INVALID_ENCRYPTED_DATA)
       ELSE IF opened.ok THEN DecSuccess(TextDecoderDecode(opened.data))
       ELSE DecFailure(DECRYPTION_FAILED)

(***************************************************************************)
(* utils/crypto.ts: getEncryptedDataSummary and assessPasswordStrength     *)
(***************************************************************************)
\* String.prototype.slice(from, to): a negative index counts from the end
StringSlice(str, from, to) ==
    LET len == Len(str)
        Clamp(i) == IF i < 0 THEN (IF len + i < 0 THEN 0 ELSE len + i)
                    ELSE IF i > len THEN len ELSE i
        Cut(a, b) == IF a >= b THEN <<>> ELSE SubSeq(str, a + 1, b)
    IN Cut(Clamp(from), Clamp(to))

getEncryptedDataSummary(encryptedData, maxLength) ==
    IF Len(encryptedData) <= maxLength THEN encryptedData
    ELSE LET start == StringSlice(encryptedData, 0, (maxLength \div 2) - 2)
             end == StringSlice(encryptedData, 2 - (maxLength \div 2),
                                Len(encryptedData))
         IN start \o <<46, 46, 46>> \o end

\* faulty variant: the score stops at 4
assessPasswordStrengthCapped(password) ==
    LET Has(lo, hi) == \E i \in 1..Len(password) : password[i] \in lo..hi
        Other == \E i \in 1..Len(password) :
                     password[i] \notin (97..122) \cup (65..90) \cup (48..57)
        Point(b) == IF b THEN 1 ELSE 0
        sum == Point(Len(password) >= 8) + Point(Len(password) >= 12)
               + Point(Has(97, 122) /\ Has(65, 90)) + Point(Has(48, 57))
               + Point(Other)
        score == IF sum > 4 THEN 4 ELSE sum
    IN [score |-> score,
        feedback |-> CASE score \in {0, 1} -> "weak"
                       [] score = 2 -> "fairly weak"
                       [] score = 3 -> "medium"
                       [] score = 4 -> "fairly strong"
                       [] OTHER -> "unknown"]

\* feedback stands for the five messages of the switch, in its order:
\* too weak, fairly weak, medium, fairly strong, very strong
assessPasswordStrength(password) ==
    LET Has(lo, hi) == \E i \in 1..Len(password) : password[i] \in lo..hi
        Other == \E i \in 1..Len(password) :
                     password[i] \notin (97..122) \cup (65..90) \cup (48..57)
        Point(b) == IF b THEN 1 ELSE 0
        score == Point(Len(password) >= 8) + Point(Len(password) >= 12)
                 + Point(Has(97, 122) /\ Has(65, 90)) + Point(Has(48, 57))
                 + Point(Other)
    IN [score |-> score,
        feedback |-> CASE score \in {0, 1} -> "weak"
                       [] score = 2 -> "fairly weak"
                       [] score = 3 -> "medium"
                       [] score = 4 -> "fairly strong"
                       [] score = 5 -> "very strong"
                       [] OTHER -> "unknown"]

(***************************************************************************)
(* utils/qr-generator.ts: validateStaticInput and generateStaticQR         *)
(***************************************************************************)
STATIC_MAX_LENGTH == 500

\* the messages are ERROR_MESSAGES.EMPTY_INPUT and .INPUT_TOO_LONG
validateStaticInput(text) ==
    IF Len(text) = 0 \/ TrimIsEmpty(text)
        THEN [isValid |-> FALSE, errorMessage |-> "EMPTY_INPUT"]
    ELSE IF Len(text) > STATIC_MAX_LENGTH
        THEN [isValid |-> FALSE, errorMessage |-> "INPUT_TOO_LONG"]
    ELSE [isValid |-> TRUE, errorMessage |-> NoError]

\* faulty variant: the length is not checked
generateStaticQRAnyLength(text, encodes) ==
    IF Len(text) = 0 \/ TrimIsEmpty(text)
        THEN [success |-> FALSE, dataURL |-> <<>>, error |-> "EMPTY_INPUT",
              encoder |-> FALSE]
    ELSE IF encodes
        THEN [success |-> TRUE, dataURL |-> text, error |-> NoError,
              encoder |-> TRUE]
    ELSE [success |-> FALSE, dataURL |-> <<>>, error |-> "QR_GENERATION_FAILED",
          encoder |-> TRUE]

\* generateStaticQR(text): encodes is whether QRCode.toDataURL and
\* QRCode.toString return rather than throw.  dataURL stands for the image:
\* it is the text the encoder was given.  encoder records whether the
\* encoder was called.
generateStaticQR(text, encodes) ==
    LET validation == validateStaticInput(text)
    IN IF ~validation.isValid
           THEN [success |-> FALSE, dataURL |-> <<>>,
                 error |-> validation.errorMessage, encoder |-> FALSE]
       ELSE IF encodes
           THEN [success |-> TRUE, dataURL |-> text, error |-> NoError,
                 encoder |-> TRUE]
       ELSE [success |-> FALSE, dataURL |-> <<>>, error |-> "QR_GENERATION_FAILED",
             encoder |-> TRUE]

(***************************************************************************)
(* State                                                                   *)
(***************************************************************************)
VARIABLES
    calls,   \* per call slot: the locals of the call of encryptPayload or
             \* decryptPayload that is in flight there
    issued,  \* the envelopes successful encryptPayload calls have returned
    rng,     \* how many outputs crypto.getRandomValues has produced
    secret,  \* the string a function of utils/totp.ts is called with
    totp,    \* the function called with it and what it returned
    util,    \* the display helper of utils/crypto.ts called, its arguments
             \* and what it returned
    state,          \* useQRGenerator: the AppState of useState
    debounceTimer,  \* useQRGenerator: the state debounceTimer, 0 for null
    local,          \* DynamicQRPanel while mounted: its state totpConfig
    rendered,       \* state, debounceTimer and local as of the last commit,
                    \* which the callbacks and effect closures in use hold
                    \* (without qrResult and error, which none of them reads)
    timers,         \* armed timers: debounce timers with the content they
                    \* hold, the auto-encrypt timeout, refresh intervals,
                    \* and intervalRef.current (0 for null)
    pending,        \* calls waiting at an await: generateQR (their content)
                    \* and handleEncrypt (its plaintext and password)
    events          \* how many clicks and edits the user has made

appVars == <<state, debounceTimer, local, rendered, timers, pending, events>>
uiVars == <<util, appVars>>
vars == <<calls, issued, rng, secret, totp, uiVars>>
codecVars == <<calls, issued, rng>>
totpVars == <<secret, totp>>

Slots == {1, 2}

NoKey == [pw |-> <<>>, salt |-> <<>>]
NoSrc == [kind |-> "none", p |-> <<>>, w |-> <<>>, pos |-> 0]

IdleCall ==
    [kind |-> "idle", pc |-> "idle",
     plaintext |-> <<>>, password |-> <<>>, encryptedData |-> <<>>,
     salt |-> <<>>, iv |-> <<>>, keyMaterial |-> <<>>, key |-> NoKey,
     data |-> <<>>, decrypted |-> <<>>, ops |-> <<>>,
     src |-> NoSrc, result |-> NoResult]

\* no function of utils/totp.ts called yet
NoCall == [fn |-> "none", format |-> "none", cleanSecret |-> <<>>, error |-> NoError,
           parsed |-> Null, totpConfig |-> NoConfig, localError |-> NoError,
           parts |-> [scheme |-> <<>>, sep |-> <<>>, authority |-> <<>>,
                      path |-> <<>>, query |-> <<>>]]

\* no display helper called yet
NoUtil == [fn |-> "none", text |-> <<>>, maxLength |-> 0,
           strength |-> [score |-> 0, feedback |-> "none"], summary |-> <<>>]

\* qrResult: null
NoQR == [success |-> FALSE, dataURL |-> <<>>, error |-> "null", encoder |-> FALSE]

\* DynamicQRPanel: useState<TOTPConfig | null>(null)
NoLocal == [totpConfig |-> [cfg |-> NoConfig, obj |-> 0]]

\* the application after its first render, whose effects change nothing
InitHook ==
    \* the argument of useState<AppState>
    LET initialState ==
            [currentMode |-> "static", staticInput |-> <<>>, totpSecret |-> <<>>,
             totpConfig |-> [cfg |-> NoConfig, obj |-> 0], encryptInput |-> <<>>,
             encryptPassword |-> <<>>, encryptedPayload |-> <<>>,
             qrResult |-> NoQR, isLoading |-> FALSE, error |-> NoError]
    IN
    /\ state = initialState
    /\ debounceTimer = 0
    /\ local = NoLocal
    /\ rendered = [state |-> initialState, debounceTimer |-> 0, local |-> NoLocal]
    /\ timers = [debounce |-> {}, encrypt |-> FALSE, interval |-> {},
                 intervalRef |-> 0]
    /\ pending = [qr |-> {}, enc |-> {}]
    /\ events = 0

InitUi ==
    /\ util = NoUtil
    /\ InitHook

Init ==
    /\ calls = [c \in Slots |-> IdleCall]
    /\ issued = <<>>
    /\ rng = 0
    /\ secret = <<>>
    /\ totp = NoCall
    /\ InitUi

(***************************************************************************)
(* Inputs                                                                  *)
(***************************************************************************)
MaxIssued == 2

\* "", " ", "a", "é" (two UTF-8 bytes), U+FEFF "a"
Plaintexts == {<<>>, <<32>>, <<97>>, <<233>>, <<65279, 97>>}

Password1 == <<112, 97, 115, 115, 119, 111, 114, 100>>  \* "password"
Password2 == <<112, 97, 115, 115, 119, 48, 114, 100>>   \* "passw0rd"
ShortPassword == <<97, 98, 99>>                         \* "abc"

EncPasswords == {<<>>, ShortPassword, Password1}
DecPasswords == {<<>>, ShortPassword, Password1, Password2}

\* strings that no encryptPayload call returned: " ", "!!!!", "A", "AAAA"
RawStrings == {<<>>, <<32>>, <<33, 33, 33, 33>>, <<65>>, <<65, 65, 65, 65>>}

\* decoded lengths below the minimum of 44
TruncatedLengths == {0, 1, 28, 43}

\* payloads another implementation of the same scheme may have sealed:
\* bytes that are not UTF-8 (0xFF; a lead byte without continuation), and "a"
ForeignPayloads == {<<255>>, <<195>>, <<97>>}

\* an envelope made outside encryptPayload, by the same construction
ForeignEnvelope(payload, w) ==
    LET salt == generateRandomBytes(101, SALT_LENGTH)
        iv == generateRandomBytes(102, IV_LENGTH)
    IN Btoa(salt \o iv \o AesGcmEncrypt(deriveKey(importKey(w), salt), iv, payload))

\* changes of a byte: the next value, and the top bit flipped
ByteChanges == {1, 128}

\* the decoded envelope with one byte changed, encoded again
Tampered(encryptedData, pos, delta) ==
    LET b == Atob(encryptedData).bytes
    IN Btoa([b EXCEPT ![pos] = (@ + delta) % 256])

Truncated(encryptedData, n) == Btoa(SubSeq(Atob(encryptedData).bytes, 1, n))

Src(kind, p, w, pos) == [kind |-> kind, p |-> p, w |-> w, pos |-> pos]

\* what decryptPayload may be given: an issued envelope as it is or cut
\* short, an arbitrary string or a foreign envelope, each with any of the
\* passwords; an issued envelope with one byte changed, with its own password
DecryptInputs(positions, deltas, lengths, raws, foreigns, passwords) ==
    UNION {{[e |-> issued[k].env, w |-> w,
             src |-> Src("asis", issued[k].p, issued[k].w, 0)] :
               w \in passwords} : k \in 1..Len(issued)}
    \cup UNION {{[e |-> Tampered(issued[k].env, x[1], x[2]), w |-> issued[k].w,
                  src |-> Src("tamper", issued[k].p, issued[k].w, x[1])] :
                    x \in (positions \cap (1..Len(Atob(issued[k].env).bytes)))
                              \X deltas} :
                k \in 1..Len(issued)}
    \cup UNION {{[e |-> Truncated(issued[k].env, x[1]), w |-> x[2],
                  src |-> Src("trunc", issued[k].p, issued[k].w, x[1])] :
                    x \in lengths \X passwords} : k \in 1..Len(issued)}
    \cup {[e |-> x[1], w |-> x[2], src |-> Src("raw", <<>>, <<>>, 0)] :
            x \in raws \X passwords}
    \cup {[e |-> ForeignEnvelope(x[1], Password1), w |-> x[2],
           src |-> Src("foreign", <<>>, Password1, 0)] :
            x \in foreigns \X passwords}

(***************************************************************************)
(* Actions: one per synchronous stretch of a call                          *)
(***************************************************************************)
\* the locals a call reads back after an await
SaltOf(c) == calls[c].salt

\* faulty variant: iv is a variable of the module, overwritten by the call that
\* started last
SharedIv(c) ==
    IF \E d \in Slots \ {c} : calls[d].iv # <<>>
        THEN calls[CHOOSE d \in Slots \ {c} : calls[d].iv # <<>>].iv
        ELSE calls[c].iv

IvOf(c) == calls[c].iv
KeyOf(c) == calls[c].key

InFlightEncrypts ==
    Cardinality({c \in Slots : /\ calls[c].kind = "encrypt"
                                /\ (calls[c].pc # "done" \/ calls[c].result.success)})

\* encryptPayload(p, w) up to its first await: validation, the random salt
\* and nonce, and deriveKey up to crypto.subtle.importKey
EncryptStart(c, p, w) ==
    /\ calls[c].pc = "idle"
    /\ Len(issued) + InFlightEncrypts < MaxIssued
    /\ LET validation == validateEncryptionInput(p, w)
           base == [IdleCall EXCEPT !.kind = "encrypt", !.plaintext = p,
                                    !.password = w]
       IN IF ~validation.isValid
              THEN /\ calls' = [calls EXCEPT ![c] =
                         [base EXCEPT !.pc = "done",
                                      !.result = EncFailure(validation.errorMessage)]]
                   /\ rng' = rng
              ELSE /\ calls' = [calls EXCEPT ![c] =
                         [base EXCEPT !.pc = "importKey",
                                      !.salt = FreshSalt(rng),
                                      !.iv = FreshIv(rng),
                                      !.ops = <<"getRandomValues", "getRandomValues",
                                                "importKey">>]]
                   /\ rng' = rng + 2
    /\ UNCHANGED <<issued, totpVars, uiVars>>

\* decryptPayload(e, w) up to its first await: the input checks, atob, the
\* three slices, and deriveKey up to crypto.subtle.importKey
DecryptStart(c, e, w, src) ==
    /\ calls[c].pc = "idle"
    /\ LET pre == DecryptPrecheck(e, w)
           parts == SplitEnvelope(pre.bytes)
           base == [IdleCall EXCEPT !.kind = "decrypt", !.encryptedData = e,
                                    !.password = w, !.src = src]
       IN IF ~pre.ok
              THEN calls' = [calls EXCEPT ![c] =
                       [base EXCEPT !.pc = "done", !.result = DecFailure(pre.error)]]
              ELSE calls' = [calls EXCEPT ![c] =
                       [base EXCEPT !.pc = "importKey",
                                    !.salt = parts.salt,
                                    !.iv = parts.iv,
                                    !.data = parts.encrypted,
                                    !.ops = <<"importKey">>]]
    /\ UNCHANGED <<issued, rng, totpVars, uiVars>>

\* deriveKey resumes with the key material and calls crypto.subtle.deriveKey
ImportKeyDone(c) ==
    /\ calls[c].pc = "importKey"
    /\ calls' = [calls EXCEPT ![c] =
           [@ EXCEPT !.pc = "deriveKey",
                     !.keyMaterial = importKey(calls[c].password),
                     !.ops = Append(@, "deriveKey")]]
    /\ UNCHANGED <<issued, rng, totpVars, uiVars>>

\* the call resumes with the derived key and calls crypto.subtle.encrypt on
\* the UTF-8 bytes of the plaintext, or crypto.subtle.decrypt
DeriveKeyDone(c) ==
    /\ calls[c].pc = "deriveKey"
    /\ calls' = [calls EXCEPT ![c] =
           [@ EXCEPT !.pc = "cipher",
                     !.key = deriveKey(calls[c].keyMaterial, SaltOf(c)),
                     !.data = IF calls[c].kind = "encrypt"
                                  THEN TextEncoderEncode(calls[c].plaintext)
                                  ELSE @,
                     !.ops = Append(@, calls[c].kind)]]
    /\ UNCHANGED <<issued, rng, totpVars, uiVars>>

\* encryptPayload resumes with the ciphertext and returns the envelope
EncryptDone(c) ==
    /\ calls[c].pc = "cipher"
    /\ calls[c].kind = "encrypt"
    /\ LET encryptedBuffer == AesGcmEncrypt(KeyOf(c), IvOf(c), calls[c].data)
           combinedBuffer == CombineEnvelope(SaltOf(c), IvOf(c), encryptedBuffer)
       IN calls' = [calls EXCEPT ![c] =
              [@ EXCEPT !.pc = "done", !.result = EncSuccess(Btoa(combinedBuffer))]]
    /\ UNCHANGED <<issued, rng, totpVars, uiVars>>

\* decryptPayload resumes with the decrypted bytes and returns them decoded,
\* or crypto.subtle.decrypt has thrown and the catch block returns
DecryptDone(c) ==
    /\ calls[c].pc = "cipher"
    /\ calls[c].kind = "decrypt"
    /\ LET opened == AesGcmDecrypt(KeyOf(c), IvOf(c), calls[c].data)
       IN IF opened.ok
              THEN calls' = [calls EXCEPT ![c] =
                       [@ EXCEPT !.pc = "done",
                                 !.decrypted = opened.data,
                                 !.result = DecSuccess(TextDecoderDecode(opened.data))]]
              ELSE calls' = [calls EXCEPT ![c] =
                       [@ EXCEPT !.pc = "done",
                                 !.result = DecFailure(DECRYPTION_FAILED)]]
    /\ UNCHANGED <<issued, rng, totpVars, uiVars>>

\* the caller takes the result; it keeps the envelope of a successful
\* encryptPayload
Return(c) ==
    /\ calls[c].pc = "done"
    /\ calls' = [calls EXCEPT ![c] = IdleCall]
    /\ issued' = IF calls[c].kind = "encrypt" /\ calls[c].result.success
                     THEN Append(issued, [p |-> calls[c].plaintext,
                                          w |-> calls[c].password,
                                          env |-> calls[c].result.value])
                     ELSE issued
    /\ UNCHANGED <<rng, totpVars, uiVars>>

\* every byte of the longest envelope
MaxPlaintextBytes ==
    CHOOSE n \in 0..64 :
        /\ \A p \in Plaintexts : Len(TextEncoderEncode(p)) <= n
        /\ \E p \in Plaintexts : Len(TextEncoderEncode(p)) = n

AllPositions == 1..(SALT_LENGTH + IV_LENGTH + TAG_LENGTH + MaxPlaintextBytes)

\* one call at a time
Next ==
    \/ \E p \in Plaintexts, w \in EncPasswords : EncryptStart(1, p, w)
    \/ /\ calls[1].pc = "idle"
       /\ \E i \in DecryptInputs(AllPositions, ByteChanges, TruncatedLengths,
                                 RawStrings, ForeignPayloads, DecPasswords) :
              DecryptStart(1, i.e, i.w, i.src)
    \/ ImportKeyDone(1)
    \/ DeriveKeyDone(1)
    \/ EncryptDone(1)
    \/ DecryptDone(1)
    \/ Return(1)

Spec == Init /\ [][Next]_vars

\* two calls in flight, their awaits resolving in any order
ConcPlaintexts == {<<>>, <<97>>}
ConcEncPasswords == {Password1}
ConcPasswords == {Password1, Password2}
\* the first byte of the salt and the last byte of the tag of "a"
ConcPositions == {1, SALT_LENGTH + IV_LENGTH + 1 + TAG_LENGTH}
ConcRawStrings == {<<33, 33, 33, 33>>}

NextConc ==
    \E c \in Slots :
        \/ \E p \in ConcPlaintexts, w \in ConcEncPasswords : EncryptStart(c, p, w)
        \/ /\ calls[c].pc = "idle"
           /\ \E i \in DecryptInputs(ConcPositions, {1}, {}, ConcRawStrings, {},
                                     ConcPasswords) :
                  DecryptStart(c, i.e, i.w, i.src)
        \/ ImportKeyDone(c)
        \/ DeriveKeyDone(c)
        \/ EncryptDone(c)
        \/ DecryptDone(c)
        \/ Return(c)

SpecConc == Init /\ [][NextConc]_vars

(***************************************************************************)
(* The secret normalizer: inputs, calls, specification                     *)
(***************************************************************************)
MaxSecretLen == 3
MaxHexBytes == 5

\* "Hello World Secret"
HelloWorldSecret ==
    <<72, 101, 108, 108, 111, 32, 87, 111, 114, 108, 100, 32,
      83, 101, 99, 114, 101, 116>>

\* "48656c6c6f20576f726c64"
HelloWorldHex ==
    <<52, 56, 54, 53, 54, 99, 54, 99, 54, 102, 50, 48,
      53, 55, 54, 102, 55, 50, 54, 99, 54, 52>>

\* the inputs of the normalizer: every short string over a few characters,
\* the hexadecimal spellings of short byte strings, and some examples
SecretInputs ==
    LET \* tab, space, "-", "1", "=", "!", "a", "g", "é": the separators, a
        \* digit that is hexadecimal only, the pad symbol, a character of no
        \* alphabet, a letter of both alphabets, a letter that is canonical
        \* only, and a character of two UTF-8 bytes
        SecretChars == {9, 32, 45, 49, 61, 33, 97, 103, 233}
        ShortSecrets == UNION {[1..n -> SecretChars] : n \in 0..MaxSecretLen}
        \* 0x00, 0x48, 0x81, 0xff
        HexByteValues == {0, 72, 129, 255}
        HexDigitChar(d) == IF d < 10 THEN 48 + d ELSE 87 + d
        \* the bytes written as lower-case hexadecimal digits
        HexOf(bytes) ==
            [i \in 1..(2 * Len(bytes)) |->
                IF i % 2 = 1 THEN HexDigitChar(bytes[(i + 1) \div 2] \div 16)
                ELSE HexDigitChar(bytes[i \div 2] % 16)]
        HexSecrets ==
            {HexOf(b) : b \in UNION {[1..n -> HexByteValues] : n \in 1..MaxHexBytes}}
        \* "jbsw y3dp-ehpk_3pxp=", "pass word 1", "ß"
        ExampleSecrets ==
            {HelloWorldSecret, HelloWorldHex,
             <<106, 98, 115, 119, 32, 121, 51, 100, 112, 45, 101, 104, 112, 107, 95,
               51, 112, 120, 112, 61>>,
             <<112, 97, 115, 115, 32, 119, 111, 114, 100, 32, 49>>,
             <<223>>}
    IN ShortSecrets \cup HexSecrets \cup ExampleSecrets

InitTotp ==
    /\ calls = [c \in Slots |-> IdleCall]
    /\ issued = <<>>
    /\ rng = 0
    /\ secret \in SecretInputs
    /\ totp = NoCall
    /\ InitUi

\* handleInputChange of DynamicQRPanel calls detectSecretFormat(newValue)
DetectSecretFormatCall ==
    /\ totp.fn = "none"
    /\ totp' = [NoCall EXCEPT !.fn = "detectSecretFormat",
                              !.format = detectSecretFormat(secret)]
    /\ UNCHANGED <<secret, codecVars, uiVars>>

\* generateTOTP calls cleanTOTPSecret(secret)
CleanTOTPSecretCall ==
    /\ totp.fn = "none"
    /\ totp' = [NoCall EXCEPT !.fn = "cleanTOTPSecret",
                              !.format = detectSecretFormat(secret),
                              !.cleanSecret = cleanTOTPSecret(secret)]
    /\ UNCHANGED <<secret, codecVars, uiVars>>

NextTotp ==
    \/ DetectSecretFormatCall
    \/ CleanTOTPSecretCall

SpecTotp == InitTotp /\ [][NextTotp]_vars

(***************************************************************************)
(* parseOTPAuthURI and generateTOTPConfig: inputs, calls, specification    *)
(***************************************************************************)
\* "?secret=g2&digits=6&period=30"
SecretDigitsPeriod ==
    <<63, 115, 101, 99, 114, 101, 116, 61, 103, 50, 38, 100, 105, 103, 105, 116, 115,
      61, 54, 38, 112, 101, 114, 105, 111, 100, 61, 51, 48>>

\* "?issuer=i&algorithm=SHA1"
IssuerAlgorithm ==
    <<63, 105, 115, 115, 117, 101, 114, 61, 105, 38, 97, 108, 103, 111, 114, 105, 116,
      104, 109, 61, 83, 72, 65, 49>>

\* the strings the panel may be given, each with the pieces it is written
\* from: URIs, near-URIs and, without scheme and separator, plain secrets
UriParts ==
    [scheme :
         \* "otpauth", "OtpAuth", "http", ""
         {<<111, 116, 112, 97, 117, 116, 104>>,
          <<79, 116, 112, 65, 117, 116, 104>>,
          <<104, 116, 116, 112>>,
          <<>>},
     sep :
         \* "://", ":/", ":", ""
         {<<58, 47, 47>>, <<58, 47>>, <<58>>, <<>>},
     authority :
         \* "totp", "TOTP", "", "u@totp", "totp:99999", "to tp"
         {<<116, 111, 116, 112>>,
          <<84, 79, 84, 80>>,
          <<>>,
          <<117, 64, 116, 111, 116, 112>>,
          <<116, 111, 116, 112, 58, 57, 57, 57, 57, 57>>,
          <<116, 111, 32, 116, 112>>},
     path :
         \* "", "/a", "//a/b", "/./é", "/a b"
         {<<>>,
          <<47, 97>>,
          <<47, 47, 97, 47, 98>>,
          <<47, 46, 47, 233>>,
          <<47, 97, 32, 98>>},
     query :
         \* "", "?secret=g2", "?secret=", "?secret=g2&digits=6&period=30",
         \* "?issuer=i&algorithm=SHA1", "?secret=g+2%41", "#secret=g2",
         \* "?digits=x"
         {<<>>,
          <<63, 115, 101, 99, 114, 101, 116, 61, 103, 50>>,
          <<63, 115, 101, 99, 114, 101, 116, 61>>,
          SecretDigitsPeriod,
          IssuerAlgorithm,
          <<63, 115, 101, 99, 114, 101, 116, 61, 103, 43, 50, 37, 52, 49>>,
          <<35, 115, 101, 99, 114, 101, 116, 61, 103, 50>>,
          <<63, 100, 105, 103, 105, 116, 115, 61, 120>>}]

BuildUri(parts) ==
    parts.scheme \o parts.sep \o parts.authority \o parts.path \o parts.query

InitUri ==
    /\ calls = [c \in Slots |-> IdleCall]
    /\ issued = <<>>
    /\ rng = 0
    /\ \E parts \in UriParts :
           /\ secret = BuildUri(parts)
           /\ totp = [NoCall EXCEPT !.parts = parts]
    /\ InitUi

\* parseOTPAuthURI(secret)
ParseOTPAuthURICall ==
    /\ totp.fn = "none"
    /\ totp' = [totp EXCEPT !.fn = "parseOTPAuthURI",
                            !.parsed = parseOTPAuthURI(secret)]
    /\ UNCHANGED <<secret, codecVars, uiVars>>

\* the effect of DynamicQRPanel that runs generateTOTPConfig for the secret
GenerateTOTPConfig ==
    /\ totp.fn = "none"
    /\ LET Ran(outcome) ==
               [totp EXCEPT !.fn = "generateTOTPConfig",
                            !.parsed = outcome.parsed,
                            !.cleanSecret = outcome.cleanSecret,
                            !.totpConfig = outcome.totpConfig,
                            !.localError = outcome.localError]
           \* the secret generateTOTPConfig hands to generateTOTP, if it
           \* calls it
           Argument(trimmed) ==
               IF StartsWith(trimmed, OTPAUTH_PREFIX)
                   THEN parseOTPAuthURI(trimmed).secret.v
                   ELSE secret
       IN \E accepted \in TotpAccepts(cleanTOTPSecret(Argument(JsTrim(secret)))) :
              totp' = Ran(generateTOTPConfig(secret, totp.localError, accepted))
    /\ UNCHANGED <<secret, codecVars, uiVars>>

NextUri ==
    \/ ParseOTPAuthURICall
    \/ GenerateTOTPConfig

SpecUri == InitUri /\ [][NextUri]_vars

(***************************************************************************)
(* getEncryptedDataSummary and assessPasswordStrength: inputs, calls       *)
(***************************************************************************)
MaxHeadLen == 3
MaxSummaryLength == 8

\* a head over a lower-case letter, an upper-case letter, a digit and a
\* symbol, either alone or filled up with "a" to one of the two lengths
\* assessPasswordStrength tests for
UtilTexts ==
    LET HeadChars == {97, 65, 49, 33}
        Heads == UNION {[1..n -> HeadChars] : n \in 0..MaxHeadLen}
        Filled(h, n) == h \o [i \in 1..(n - Len(h)) |-> 97]
    IN Heads \cup {Filled(h, n) : h \in Heads, n \in {8, 12}}

InitUtil ==
    /\ calls = [c \in Slots |-> IdleCall]
    /\ issued = <<>>
    /\ rng = 0
    /\ secret = <<>>
    /\ totp = NoCall
    /\ \E text \in UtilTexts, maxLength \in 0..MaxSummaryLength :
           util = [NoUtil EXCEPT !.text = text, !.maxLength = maxLength]
    /\ InitHook

\* EncryptedQRPanel: password ? assessPasswordStrength(password) : null
AssessPasswordStrengthCall ==
    /\ util.fn = "none"
    /\ util.text # <<>>
    /\ util' = [util EXCEPT !.fn = "assessPasswordStrength",
                            !.strength = assessPasswordStrength(util.text)]
    /\ UNCHANGED <<codecVars, totpVars, appVars>>

\* getEncryptedDataSummary(encryptedData, maxLength)
GetEncryptedDataSummaryCall ==
    /\ util.fn = "none"
    /\ util' = [util EXCEPT !.fn = "getEncryptedDataSummary",
                            !.summary = getEncryptedDataSummary(util.text,
                                                                util.maxLength)]
    /\ UNCHANGED <<codecVars, totpVars, appVars>>

NextUtil ==
    \/ AssessPasswordStrengthCall
    \/ GetEncryptedDataSummaryCall

SpecUtil == InitUtil /\ [][NextUtil]_vars

(***************************************************************************)
(* useQRGenerator with the panels MainCard mounts: handlers, effects,      *)
(* timers.  A timer that is armed may fire at any moment: nothing is       *)
(* assumed about how long a render takes compared with the 300 ms, 500 ms  *)
(* and 1000 ms of the timers.  A commit and the effects it runs are one    *)
(* step.                                                                   *)
(***************************************************************************)
MaxEvents == 4
MaxArmed == 1
MaxInFlight == 1

\* the tabs, and what the user types into each field.  staticInput: nothing,
\* a blank, "a", STATIC_MAX_LENGTH + 1 letters; totpSecret: nothing,
\* "JBSWY3DP", "!"; encryptInput: nothing, "a"; encryptPassword: nothing,
\* "abc", "password"
UserInputs ==
    [currentMode |-> {"static", "dynamic", "encrypted"},
     staticInput |-> {<<>>, <<32>>, <<97>>,
                      [i \in 1..(STATIC_MAX_LENGTH + 1) |-> 97]},
     totpSecret |-> {<<>>, <<74, 66, 83, 87, 89, 51, 68, 80>>, <<33>>},
     encryptInput |-> {<<>>, <<97>>},
     encryptPassword |-> {<<>>, ShortPassword, Password1}]

\* config.otpauthURL, which the otpauth library builds: the scheme and type
\* followed by the parameters, of which only the secret varies here
otpauthURL(totpConfig) ==
    IF totpConfig.cfg.isNull THEN <<>>
    ELSE OTPAUTH_PREFIX \o <<116, 111, 116, 112, 47, 63>> \o totpConfig.cfg.secret

\* the hook and panel state a handler or an effect works on
World == [state |-> state, debounceTimer |-> debounceTimer, timers |-> timers,
          local |-> local]

\* debouncedGenerateQR(content) of the render whose debounceTimer was dt.
\* The identifier of the new timer is one no armed timer and no closure holds.
debouncedGenerateQR(w, dt, content) ==
    LET kept == {t \in w.timers.debounce : t.id # dt}
        held == {t.id : t \in kept}
                \cup {w.debounceTimer, dt, rendered.debounceTimer}
                \cup {c.dt : c \in pending.enc}
        timer == CHOOSE i \in 1..(MaxArmed + 8) :
                     i \notin held /\ \A j \in 1..(i - 1) : j \in held
    IN [w EXCEPT !.timers.debounce = kept \cup {[id |-> timer, content |-> content]},
                 !.debounceTimer = timer]

\* handleTotpConfigChange(config) of the render whose debounceTimer was dt
handleTotpConfigChange(w, dt, config) ==
    IF otpauthURL(config) # <<>>
        THEN debouncedGenerateQR([w EXCEPT !.state.totpConfig = config], dt,
                                 otpauthURL(config))
        ELSE [w EXCEPT !.state.totpConfig = config, !.state.qrResult = NoQR]

\* handleEncryptedPayloadChange(value) of the render whose debounceTimer was dt
handleEncryptedPayloadChange(w, dt, value) ==
    IF ~TrimIsEmpty(value)
        THEN debouncedGenerateQR([w EXCEPT !.state.encryptedPayload = value], dt, value)
        ELSE [w EXCEPT !.state.encryptedPayload = value, !.state.qrResult = NoQR]

\* generateTOTPConfig() of DynamicQRPanel for the render whose secret and
\* debounceTimer were totpSecret and dt: setTotpConfig and onTOTPChange with a
\* new object, or with null
panelGenerateTOTPConfig(w, dt, totpSecret, accepted) ==
    LET made == generateTOTPConfig(totpSecret, NoError, accepted).totpConfig
        config == IF made.isNull THEN [cfg |-> NoConfig, obj |-> 0]
                  ELSE [cfg |-> made, obj |-> 1 - w.local.totpConfig.obj]
    IN handleTotpConfigChange([w EXCEPT !.local.totpConfig = config], dt, config)

Armable == Cardinality(timers.debounce) <= MaxArmed

Commit(w) ==
    /\ state' = w.state
    /\ debounceTimer' = w.debounceTimer
    /\ timers' = w.timers
    /\ local' = w.local

\* faulty variant: the switch empties the static text as well
HandleModeChangeClearing(mode) ==
    /\ events < MaxEvents
    /\ events' = events + 1
    /\ ~rendered.state.isLoading
    /\ state' = [state EXCEPT !.currentMode = mode, !.error = NoError,
                              !.qrResult = NoQR, !.staticInput = <<>>]
    /\ UNCHANGED <<debounceTimer, local, rendered, timers, pending,
                   codecVars, totpVars, util>>

\* handleModeChange(mode), from a tab of TabInterface, which is disabled
\* while the rendered isLoading is true
HandleModeChange(mode) ==
    /\ events < MaxEvents
    /\ events' = events + 1
    /\ ~rendered.state.isLoading
    /\ state' = [state EXCEPT !.currentMode = mode, !.error = NoError,
                              !.qrResult = NoQR]
    /\ UNCHANGED <<debounceTimer, local, rendered, timers, pending,
                   codecVars, totpVars, util>>

\* handleStaticInputChange(value), from the mounted StaticQRPanel
HandleStaticInputChange(value) ==
    /\ events < MaxEvents
    /\ events' = events + 1
    /\ rendered.state.currentMode = "static"
    /\ value # rendered.state.staticInput
    /\ Armable
    /\ Commit(debouncedGenerateQR([World EXCEPT !.state.staticInput = value],
                                  rendered.debounceTimer, value))
    /\ UNCHANGED <<rendered, pending, codecVars, totpVars, util>>

\* handleInputChange of the mounted DynamicQRPanel: onSecretChange(newValue)
HandleTotpSecretChange(value) ==
    /\ events < MaxEvents
    /\ events' = events + 1
    /\ rendered.state.currentMode = "dynamic"
    /\ value # rendered.state.totpSecret
    /\ state' = [state EXCEPT !.totpSecret = value]
    /\ UNCHANGED <<debounceTimer, local, rendered, timers, pending,
                   codecVars, totpVars, util>>

\* handleClear of the mounted DynamicQRPanel
HandleClear ==
    /\ events < MaxEvents
    /\ events' = events + 1
    /\ rendered.state.currentMode = "dynamic"
    /\ Commit(handleTotpConfigChange(
                  [World EXCEPT !.state.totpSecret = <<>>,
                                !.local.totpConfig = NoLocal.totpConfig],
                  rendered.debounceTimer, NoLocal.totpConfig))
    /\ UNCHANGED <<rendered, pending, codecVars, totpVars, util>>

\* handleEncryptInputChange(value), from the mounted EncryptedQRPanel
HandleEncryptInputChange(value) ==
    /\ events < MaxEvents
    /\ events' = events + 1
    /\ rendered.state.currentMode = "encrypted"
    /\ value # rendered.state.encryptInput
    /\ state' = [state EXCEPT !.encryptInput = value]
    /\ UNCHANGED <<debounceTimer, local, rendered, timers, pending,
                   codecVars, totpVars, util>>

\* handleEncryptPasswordChange(value), from the mounted EncryptedQRPanel
HandleEncryptPasswordChange(value) ==
    /\ events < MaxEvents
    /\ events' = events + 1
    /\ rendered.state.currentMode = "encrypted"
    /\ value # rendered.state.encryptPassword
    /\ state' = [state EXCEPT !.encryptPassword = value]
    /\ UNCHANGED <<debounceTimer, local, rendered, timers, pending,
                   codecVars, totpVars, util>>

\* a debounce timer fires: generateQR(content) up to its await
DebounceTimerFires(timer) ==
    /\ timer \in timers.debounce
    /\ timers' = [timers EXCEPT !.debounce = @ \ {timer}]
    /\ IF TrimIsEmpty(timer.content)
           THEN /\ state' = [state EXCEPT !.qrResult = NoQR]
                /\ pending' = pending
           ELSE /\ Cardinality(pending.qr \ {timer.content}) < MaxInFlight
                /\ state' = [state EXCEPT !.isLoading = TRUE, !.error = NoError]
                /\ pending' = [pending EXCEPT !.qr = @ \cup {timer.content}]
    /\ UNCHANGED <<debounceTimer, local, rendered, codecVars, totpVars, util, events>>

\* generateQR(content) from its await on: generateStaticQR has returned
GenerateQRResumes(content, encodes) ==
    /\ content \in pending.qr
    /\ pending' = [pending EXCEPT !.qr = @ \ {content}]
    /\ LET result == generateStaticQR(content, encodes)
       IN state' = [state EXCEPT !.qrResult = result, !.isLoading = FALSE,
                                 !.error = result.error]
    /\ UNCHANGED <<debounceTimer, local, rendered, timers, codecVars, totpVars, util, events>>

\* the auto-encrypt timeout fires: handleEncrypt of the render that armed
\* it, up to its await
HandleEncrypt ==
    /\ timers.encrypt
    /\ pending.enc = {}
    /\ Len(issued) < MaxIssued
    /\ timers' = [timers EXCEPT !.encrypt = FALSE]
    /\ pending' = [pending EXCEPT !.enc =
                       IF TrimIsEmpty(rendered.state.encryptInput)
                          \/ rendered.state.encryptPassword = <<>>
                       THEN {}
                       ELSE {[plaintext |-> rendered.state.encryptInput,
                              password |-> rendered.state.encryptPassword,
                              dt |-> rendered.debounceTimer]}]
    /\ UNCHANGED <<state, debounceTimer, local, rendered, codecVars, totpVars, util, events>>

\* handleEncrypt from its await on: encryptPayload has returned, and a
\* successful result goes to onEncryptedPayloadChange.  issued keeps the
\* envelope with its inputs and the number of user events so far.
HandleEncryptResumes(call) ==
    /\ call \in pending.enc
    /\ Armable
    /\ pending' = [pending EXCEPT !.enc = {}]
    /\ LET result == EncryptAlone(call.plaintext, call.password,
                                  FreshSalt(rng), FreshIv(rng))
       IN /\ rng' = rng + 2
          /\ IF result.success
                 THEN /\ issued' = Append(issued, [p |-> call.plaintext,
                                                   w |-> call.password,
                                                   env |-> result.value,
                                                   at |-> events])
                      /\ Commit(handleEncryptedPayloadChange(World, call.dt,
                                                             result.value))
                 ELSE /\ issued' = issued
                      /\ Commit(World)
    /\ UNCHANGED <<rendered, calls, totpVars, util, events>>

\* a refresh interval of DynamicQRPanel ticks: generateTOTPConfig() of the
\* render that set it
IntervalTick(interval) ==
    /\ interval \in timers.interval
    /\ Armable
    /\ \E accepted \in TotpAccepts(cleanTOTPSecret(JsTrim(rendered.state.totpSecret))) :
           Commit(panelGenerateTOTPConfig(World, rendered.debounceTimer,
                                          rendered.state.totpSecret, accepted))
    /\ UNCHANGED <<rendered, pending, codecVars, totpVars, util, events>>

\* faulty variant: the effect returns no cleanup
intervalEffectNoCleanup(w, unmounts, changed, hadConfig) ==
    LET kept == IF unmounts THEN w.timers.interval \ {w.timers.intervalRef}
                ELSE w.timers.interval
        cleared == kept \ {w.timers.intervalRef}
        interval == CHOOSE i \in 1..3 : i \notin cleared \cup {w.timers.intervalRef}
    IN IF unmounts
           THEN [w EXCEPT !.timers.interval = kept, !.timers.intervalRef = 0]
       ELSE IF changed /\ ~w.local.totpConfig.cfg.isNull
           THEN [w EXCEPT !.timers.interval = cleared \cup {interval},
                          !.timers.intervalRef = interval]
       ELSE [w EXCEPT !.timers.interval = kept]

\* the interval effect of DynamicQRPanel and the cleanup on unmount, at a
\* commit.  unmounts: the panel goes away; changed: totpConfig or
\* generateTOTPConfig is another than at the last commit; hadConfig: the
\* last run of the effect had a totpConfig and returned its cleanup.
intervalEffect(w, unmounts, changed, hadConfig) ==
    LET kept == IF unmounts \/ (changed /\ hadConfig)
                THEN w.timers.interval \ {w.timers.intervalRef}
                ELSE w.timers.interval
        cleared == kept \ {w.timers.intervalRef}
        interval == CHOOSE i \in 1..3 : i \notin cleared \cup {w.timers.intervalRef}
    IN IF unmounts
           THEN [w EXCEPT !.timers.interval = kept, !.timers.intervalRef = 0]
       ELSE IF changed /\ ~w.local.totpConfig.cfg.isNull
           THEN [w EXCEPT !.timers.interval = cleared \cup {interval},
                          !.timers.intervalRef = interval]
       ELSE [w EXCEPT !.timers.interval = kept]

\* a commit of App with the panel of the current mode, and the effects it
\* runs: the cleanups of the effects whose dependencies changed and of the
\* panel that unmounts, then the effects of the panel, then those of the hook
Render ==
    /\ rendered # [state |-> [state EXCEPT !.qrResult = NoQR, !.error = NoError],
                    debounceTimer |-> debounceTimer, local |-> local]
    /\ Armable
    /\ \E accepted \in TotpAccepts(cleanTOTPSecret(JsTrim(state.totpSecret))) :
        LET was == rendered.state
            dt == debounceTimer
            mode == state.currentMode
            remount == mode # was.currentMode
            timerChanged == dt # rendered.debounceTimer
            \* generateTOTPConfig is another function: [secret, onTOTPChange]
            generateChanged == remount \/ timerChanged
                               \/ state.totpSecret # was.totpSecret
            \* handleEncrypt is another function:
            \* [plaintext, password, onEncryptedPayloadChange]
            encryptChanged == remount \/ timerChanged
                              \/ state.encryptInput # was.encryptInput
                              \/ state.encryptPassword # was.encryptPassword
            \* the dependencies of the mode effect
            contentChanged == remount \/ timerChanged
                              \/ otpauthURL(state.totpConfig) # otpauthURL(was.totpConfig)
                              \/ state.staticInput # was.staticInput
                              \/ state.encryptedPayload # was.encryptedPayload
            content == CASE mode = "static" -> state.staticInput
                         [] mode = "dynamic" -> otpauthURL(state.totpConfig)
                         [] mode = "encrypted" -> state.encryptedPayload
            Cleanup(w) ==
                [w EXCEPT !.local = IF remount THEN NoLocal ELSE @,
                          !.timers.debounce =
                              IF timerChanged
                              THEN {t \in @ : t.id # rendered.debounceTimer}
                              ELSE @,
                          !.timers.encrypt =
                              @ /\ ~(was.currentMode = "encrypted" /\ encryptChanged)]
            Interval(w) ==
                IF was.currentMode = "dynamic" \/ mode = "dynamic"
                    THEN intervalEffect(w, was.currentMode = "dynamic" /\ remount,
                             generateChanged
                             \/ local.totpConfig # rendered.local.totpConfig,
                             ~rendered.local.totpConfig.cfg.isNull)
                    ELSE w
            \* useEffect(() => { generateTOTPConfig() }, [generateTOTPConfig])
            Generate(w) ==
                IF mode = "dynamic" /\ generateChanged
                    THEN panelGenerateTOTPConfig(w, dt, state.totpSecret, accepted)
                    ELSE w
            \* the auto-encrypt effect of EncryptedQRPanel
            AutoEncrypt(w) ==
                IF /\ mode = "encrypted" /\ encryptChanged
                   /\ ~TrimIsEmpty(state.encryptInput)
                   /\ state.encryptPassword # <<>>
                   /\ validateEncryptionInput(state.encryptInput,
                                              state.encryptPassword).isValid
                    THEN [w EXCEPT !.timers.encrypt = TRUE]
                    ELSE w
            ModeEffect(w) ==
                IF ~contentChanged THEN w
                ELSE IF ~TrimIsEmpty(content)
                    THEN debouncedGenerateQR(w, dt, content)
                ELSE [w EXCEPT !.state.qrResult = NoQR]
        IN /\ Commit(ModeEffect(AutoEncrypt(Generate(Interval(Cleanup(World))))))
           /\ rendered' = [state |-> [state EXCEPT !.qrResult = NoQR,
                                                   !.error = NoError],
                           debounceTimer |-> dt,
                           local |-> IF remount THEN NoLocal ELSE local]
           /\ pending' = [pending EXCEPT !.enc =
                            {[c EXCEPT !.dt = IF timerChanged THEN 0 ELSE @] : c \in @}]
    /\ UNCHANGED <<codecVars, totpVars, util, events>>

\* the user stays with the static text and the tabs
NextStatic ==
    \/ \E mode \in UserInputs.currentMode : HandleModeChange(mode)
    \/ \E value \in UserInputs.staticInput : HandleStaticInputChange(value)
    \/ Render
    \/ \E timer \in timers.debounce : DebounceTimerFires(timer)
    \/ \E content \in pending.qr, encodes \in BOOLEAN :
           GenerateQRResumes(content, encodes)

SpecStatic == Init /\ [][NextStatic]_vars

\* a commit that is due is made, a timer that stays armed fires, a call
\* that waits is resumed
FairSpecStatic ==
    /\ SpecStatic
    /\ WF_vars(Render)
    /\ \A id \in 1..(MaxArmed + 8) :
           WF_vars(\E timer \in timers.debounce :
                       timer.id = id /\ DebounceTimerFires(timer))
    /\ WF_vars(\E content \in pending.qr, encodes \in BOOLEAN :
                   GenerateQRResumes(content, encodes))

\* the user stays with the TOTP secret and the first two tabs
NextDynamic ==
    \/ \E mode \in {"static", "dynamic"} : HandleModeChange(mode)
    \/ \E value \in UserInputs.totpSecret : HandleTotpSecretChange(value)
    \/ HandleClear
    \/ Render
    \/ \E interval \in timers.interval : IntervalTick(interval)
    \/ \E timer \in timers.debounce : DebounceTimerFires(timer)
    \/ \E content \in pending.qr, encodes \in BOOLEAN :
           GenerateQRResumes(content, encodes)

SpecDynamic == Init /\ [][NextDynamic]_vars

\* the user stays with the plaintext, the password and the tabs
NextEncrypted ==
    \/ \E mode \in UserInputs.currentMode : HandleModeChange(mode)
    \/ \E value \in UserInputs.encryptInput : HandleEncryptInputChange(value)
    \/ \E value \in UserInputs.encryptPassword : HandleEncryptPasswordChange(value)
    \/ Render
    \/ HandleEncrypt
    \/ \E call \in pending.enc : HandleEncryptResumes(call)
    \/ \E timer \in timers.debounce : DebounceTimerFires(timer)
    \/ \E content \in pending.qr, encodes \in BOOLEAN :
           GenerateQRResumes(content, encodes)

SpecEncrypted == Init /\ [][NextEncrypted]_vars

(***************************************************************************)
(* Properties                                                              *)
(***************************************************************************)
Finished(c, kind) == calls[c].kind = kind /\ calls[c].pc = "done"

\* a finished decryptPayload call on an issued envelope, unchanged, with the
\* password it was encrypted under
HonestDecrypt(c) ==
    /\ Finished(c, "decrypt")
    /\ calls[c].src.kind = "asis"
    /\ calls[c].password = calls[c].src.w

\* a finished decryptPayload call on an issued envelope with one byte
\* changed, with the password it was encrypted under
TamperedDecrypt(c) ==
    /\ Finished(c, "decrypt")
    /\ calls[c].src.kind = "tamper"
    /\ calls[c].password = calls[c].src.w

\* a finished decryptPayload call on an issued envelope, unchanged, with
\* another password of valid length
WrongPasswordDecrypt(c) ==
    /\ Finished(c, "decrypt")
    /\ calls[c].src.kind = "asis"
    /\ calls[c].password # calls[c].src.w
    /\ Len(calls[c].password) >= 8

\* C1: encryption round trip. For every plaintext p that is not empty or
\* whitespace-only and every password w of at least 8 code units,
\* encryptPayload(p, w) succeeds, and decryptPayload of the envelope it
\* returned, with w, succeeds and returns exactly p.
C1_RoundTrip ==
    \A c \in Slots :
        /\ (Finished(c, "encrypt") /\ NonBlank(calls[c].plaintext)
                /\ Len(calls[c].password) >= 8)
               => calls[c].result.success
        /\ HonestDecrypt(c)
               => (calls[c].result.success /\ calls[c].result.value = calls[c].src.p)

\* C2: tamper detection. decryptPayload of an envelope of encryptPayload(p, w)
\* with any single byte of its decoded form changed (salt, nonce, ciphertext
\* or tag), with password w, fails with DECRYPTION_FAILED and returns no
\* plaintext.
C2_TamperDetected ==
    \A c \in Slots :
        TamperedDecrypt(c)
            => /\ ~calls[c].result.success
               /\ calls[c].result.error = DECRYPTION_FAILED
               /\ calls[c].result.value = <<>>

\* the envelope with its last tag byte changed was rejected
C2_Witness ==
    \E c \in Slots :
        /\ TamperedDecrypt(c)
        /\ calls[c].src.pos = 16 + 12 + Len(TextEncoderEncode(calls[c].src.p)) + 16
        /\ calls[c].result.error = DECRYPTION_FAILED

\* C3: salt and nonce freshness. Two encryptPayload(p, w) calls return
\* different envelope strings, and both envelopes decrypt under w to p.
C3_FreshAndDecryptable ==
    /\ \A i, j \in 1..Len(issued) :
           (i < j /\ issued[i].p = issued[j].p /\ issued[i].w = issued[j].w)
               => issued[i].env # issued[j].env
    /\ \A c \in Slots :
           (/\ HonestDecrypt(c)
            /\ \E i, j \in 1..Len(issued) :
                   /\ i < j
                   /\ issued[i].p = calls[c].src.p /\ issued[j].p = calls[c].src.p
                   /\ issued[i].w = calls[c].src.w /\ issued[j].w = calls[c].src.w
                   /\ calls[c].encryptedData \in {issued[i].env, issued[j].env})
               => (calls[c].result.success /\ calls[c].result.value = calls[c].src.p)

\* C4: concurrent calls do not interfere. Whatever the order in which the
\* awaits of two calls in flight resolve, each call returns what it returns
\* when run alone with its own salt and nonce, and two encryptions in flight
\* hold different salts and nonces.
C4_NoInterference ==
    /\ \A c \in Slots :
           /\ Finished(c, "encrypt")
                  => calls[c].result =
                         EncryptAlone(calls[c].plaintext, calls[c].password,
                                      calls[c].salt, calls[c].iv)
           /\ Finished(c, "decrypt")
                  => calls[c].result =
                         DecryptAlone(calls[c].encryptedData, calls[c].password)
    /\ \A c, d \in Slots :
           (c # d /\ calls[c].kind = "encrypt" /\ calls[d].kind = "encrypt"
                /\ calls[c].salt # <<>> /\ calls[d].salt # <<>>)
               => (calls[c].salt # calls[d].salt /\ calls[c].iv # calls[d].iv)

\* an encryption has finished while a decryption started before it returned
\* is still waiting for its cipher call
C4_Witness ==
    \E c, d \in Slots :
        /\ Finished(c, "encrypt") /\ calls[c].result.success
        /\ calls[d].kind = "decrypt" /\ calls[d].pc = "cipher"

\* C5: authentication failure is uninformative. decryptPayload of an issued
\* envelope with a wrong password of valid length, and decryptPayload of a
\* corrupted envelope with the right password, both fail, with the same
\* result value.
C5_SameFailure ==
    \A c, d \in Slots :
        (WrongPasswordDecrypt(c) /\ TamperedDecrypt(d))
            => /\ ~calls[c].result.success
               /\ ~calls[d].result.success
               /\ calls[c].result = calls[d].result

\* both cases side by side
C5_Witness ==
    \E c, d \in Slots :
        /\ WrongPasswordDecrypt(c) /\ TamperedDecrypt(d)
        /\ calls[c].result.error = DECRYPTION_FAILED
        /\ calls[d].result.error = DECRYPTION_FAILED

\* a finished decryptPayload call whose input is valid Base64 and decodes to
\* fewer than 44 bytes
ShortDecrypt(c) ==
    /\ Finished(c, "decrypt")
    /\ Atob(calls[c].encryptedData).ok
    /\ Len(Atob(calls[c].encryptedData).bytes) < 44

\* C6 as stated: decryptPayload of any Base64 string that decodes to fewer
\* than 44 bytes, the empty string included, fails with the error of the
\* length check (INVALID_ENCRYPTED_DATA), without starting key derivation.
C6_Original ==
    \A c \in Slots :
        ShortDecrypt(c)
            => /\ ~calls[c].result.success
               /\ calls[c].result.error = INVALID_ENCRYPTED_DATA
               /\ calls[c].ops = <<>>

\* C6 amended: such a call always fails without importing or deriving a key;
\* its error is the missing-input message when the string or the password is
\* empty, WEAK_PASSWORD when the password has fewer than 8 code units, and
\* INVALID_ENCRYPTED_DATA otherwise.
C6_ShortEnvelopeRejected ==
    \A c \in Slots :
        ShortDecrypt(c)
            => /\ ~calls[c].result.success
               /\ calls[c].ops = <<>>
               /\ calls[c].key = NoKey
               /\ calls[c].result.error =
                      IF Len(calls[c].encryptedData) = 0 \/ Len(calls[c].password) = 0
                          THEN ERR_MISSING_INPUT
                      ELSE IF Len(calls[c].password) < 8 THEN WEAK_PASSWORD
                      ELSE INVALID_ENCRYPTED_DATA

\* an envelope cut to 43 bytes, with the right password, was rejected by the
\* length check
C6_Witness ==
    \E c \in Slots :
        /\ ShortDecrypt(c)
        /\ calls[c].src.kind = "trunc" /\ calls[c].src.pos = 43
        /\ calls[c].password = calls[c].src.w
        /\ calls[c].result.error = INVALID_ENCRYPTED_DATA
        /\ calls[c].ops = <<>>

\* C7 as stated: Base64 validity is tested first, so a non-empty string that
\* is not Base64 is reported as INVALID_ENCRYPTED_DATA whatever the password.
C7_Original ==
    \A c \in Slots :
        (/\ Finished(c, "decrypt")
         /\ Len(calls[c].encryptedData) > 0
         /\ Len(calls[c].password) > 0
         /\ ~Atob(calls[c].encryptedData).ok)
            => calls[c].result.error = INVALID_ENCRYPTED_DATA

\* C7 amended: decryptPayload tests for an empty string or password first
\* (missing-input message), then the password length (WEAK_PASSWORD), then
\* Base64 validity and then the decoded length (both INVALID_ENCRYPTED_DATA);
\* an input that violates several is reported with the first of these.
C7_CheckOrder ==
    \A c \in Slots :
        Finished(c, "decrypt") =>
            LET e == calls[c].encryptedData
                w == calls[c].password
                err == calls[c].result.error
            IN /\ (Len(e) = 0 \/ Len(w) = 0) => err = ERR_MISSING_INPUT
               /\ (Len(e) > 0 /\ Len(w) \in 1..7) => err = WEAK_PASSWORD
               /\ (Len(e) > 0 /\ Len(w) >= 8 /\ ~Atob(e).ok)
                      => err = INVALID_ENCRYPTED_DATA
               /\ (Len(e) > 0 /\ Len(w) >= 8 /\ Atob(e).ok
                       /\ Len(Atob(e).bytes) < 44)
                      => err = INVALID_ENCRYPTED_DATA
               /\ err \in {ERR_MISSING_INPUT, WEAK_PASSWORD, INVALID_ENCRYPTED_DATA}
                      => (~calls[c].result.success /\ calls[c].ops = <<>>)

\* "!!!!" with the 3-character password is reported as a weak password
C7_Witness ==
    \E c \in Slots :
        /\ Finished(c, "decrypt")
        /\ calls[c].encryptedData = <<33, 33, 33, 33>>
        /\ calls[c].password = ShortPassword
        /\ calls[c].result.error = WEAK_PASSWORD

\* C8: when authenticated decryption succeeds but the recovered bytes are not
\* valid UTF-8, decryptPayload fails; it never returns success for such
\* bytes (with a plaintext of replacement characters).
C8_InvalidUtf8Rejected ==
    \A c \in Slots :
        (Finished(c, "decrypt") /\ calls[c].result.success)
            => IsValidUtf8(calls[c].decrypted)

\* C9: encryptPayload fails with the error of validateEncryptionInput: the
\* empty-plaintext message when the plaintext is empty or whitespace-only,
\* checked first, otherwise WEAK_PASSWORD when the password has fewer than 8
\* code units; such a call draws no salt or nonce and makes no key or cipher
\* call, so every two random outputs drawn belong to a call that passed.
C9_ValidationFailure ==
    /\ \A c \in Slots :
           (Finished(c, "encrypt")
                /\ (~NonBlank(calls[c].plaintext) \/ Len(calls[c].password) < 8))
               => /\ ~calls[c].result.success
                  /\ calls[c].result.value = <<>>
                  /\ calls[c].result.error =
                         IF ~NonBlank(calls[c].plaintext)
                             THEN ERR_EMPTY_PLAINTEXT ELSE WEAK_PASSWORD
                  /\ calls[c].salt = <<>> /\ calls[c].iv = <<>>
                  /\ calls[c].ops = <<>>
    /\ rng = 2 * (Len(issued) + InFlightEncrypts)

\* a whitespace-only plaintext with a short password was reported as empty
\* plaintext
C9_Witness ==
    \E c \in Slots :
        /\ Finished(c, "encrypt")
        /\ calls[c].plaintext = <<32>>
        /\ calls[c].password = ShortPassword
        /\ calls[c].result.error = ERR_EMPTY_PLAINTEXT
        /\ rng = 2 * Len(issued)

\* C10: envelope layout. The decoded output of a successful encryptPayload
\* has length 16 + 12 + len(utf8(p)) + 16, starts with the salt the key was
\* derived from, followed by the nonce given to the cipher; decryptPayload
\* takes bytes 0..15 as salt, 16..27 as nonce and the rest as ciphertext
\* with tag.
C10_Layout ==
    \A c \in Slots :
        /\ (Finished(c, "encrypt") /\ calls[c].result.success) =>
               LET b == Atob(calls[c].result.value).bytes
               IN /\ Atob(calls[c].result.value).ok
                  /\ Len(b) = 16 + 12 + Len(TextEncoderEncode(calls[c].plaintext)) + 16
                  /\ Len(calls[c].key.salt) = 16
                  /\ SubSeq(b, 1, 16) = calls[c].key.salt
                  /\ Len(calls[c].iv) = 12
                  /\ SubSeq(b, 17, 28) = calls[c].iv
                  /\ SubSeq(b, 29, Len(b)) =
                         AesGcmEncrypt(calls[c].key, calls[c].iv, calls[c].data)
        /\ (calls[c].kind = "decrypt" /\ calls[c].ops # <<>>) =>
               LET b == Atob(calls[c].encryptedData).bytes
               IN /\ calls[c].salt = SubSeq(b, 1, 16)
                  /\ calls[c].iv = SubSeq(b, 17, 28)
                  /\ calls[c].data = SubSeq(b, 29, Len(b))
                  /\ calls[c].pc # "importKey" /\ calls[c].pc # "deriveKey"
                         => calls[c].key.salt = SubSeq(b, 1, 16)

\* the one-character plaintext "é" gave an envelope of 46 bytes
C10_Witness ==
    \E c \in Slots :
        /\ Finished(c, "encrypt") /\ calls[c].result.success
        /\ calls[c].plaintext = <<233>>
        /\ Len(Atob(calls[c].result.value).bytes) = 46

(***************************************************************************)
(* Properties of the secret normalizer                                     *)
(***************************************************************************)
Cleaned(fnName) == totp.fn = fnName

\* length > 0, canonical symbols, then pad symbols only
IsNormalizedSecret(s) ==
    /\ Len(s) > 0
    /\ \E k \in 0..Len(s) :
           /\ \A i \in 1..k : IsBase32Char(s[i])
           /\ \A i \in (k + 1)..Len(s) : s[i] = 61

\* the bits of the bytes, most significant first
RefBits(bytes) ==
    [k \in 1..(8 * Len(bytes)) |->
        (bytes[((k - 1) \div 8) + 1] \div (2 ^ (7 - ((k - 1) % 8)))) % 2]

\* the reference encoding: the bits five at a time, the last group filled
\* with zero bits on the right, ceil(8n/5) symbols
ReferencePack(bytes) ==
    LET bits == RefBits(bytes)
        bit(k) == IF k <= Len(bits) THEN bits[k] ELSE 0
    IN [j \in 1..((8 * Len(bytes) + 4) \div 5) |->
           base32Chars[1 + 16 * bit(5 * j - 4) + 8 * bit(5 * j - 3)
                         + 4 * bit(5 * j - 2) + 2 * bit(5 * j - 1) + bit(5 * j)]]

\* the bytes an even number of hexadecimal digits stands for
RefHexBytes(hex) ==
    [k \in 1..(Len(hex) \div 2) |->
        16 * HexDigitValue(hex[2 * k - 1]) + HexDigitValue(hex[2 * k])]

\* two or more non-empty tokens with a space between them
HasTwoTokens(input) ==
    \E i, j, k \in 1..Len(input) :
        i < j /\ j < k /\ input[i] # 32 /\ input[j] = 32 /\ input[k] # 32

\* the classifier as specified
SpecifiedFormat(input) ==
    LET cleaned == CleanedText(input)
    IN IF IsBase32Text(cleaned) THEN "base32"
       ELSE IF IsHexText(cleaned) THEN "hex"
       ELSE IF HasTwoTokens(input) THEN "words"
       ELSE "mixed"

\* C11: every value cleanTOTPSecret returns is non-empty, consists of
\* canonical symbols and '=', and has '=' only as a contiguous suffix
C11_NormalizedSecret ==
    Cleaned("cleanTOTPSecret") => IsNormalizedSecret(totp.cleanSecret)

\* C12: on an input that is empty or holds only whitespace, hyphens and
\* underscores cleanTOTPSecret fails with InvalidSecret, and it never
\* returns the empty string
C12_EmptyRejected ==
    Cleaned("cleanTOTPSecret") =>
        /\ CleanedText(secret) = <<>> => totp.error = "InvalidSecret"
        /\ totp.error = NoError => totp.cleanSecret # <<>>

\* C13: on an input detected as hexadecimal whose cleaned form has an odd
\* number of digits cleanTOTPSecret fails with InvalidSecret
C13_OddHexRejected ==
    (Cleaned("cleanTOTPSecret") /\ totp.format = "hex"
         /\ Len(CleanedText(secret)) % 2 = 1)
        => totp.error = "InvalidSecret"

\* C14: for an even number of hexadecimal digits of any byte count the hex
\* path returns the reference encoding of the bytes: ceil(8n/5) symbols, the
\* last bits filled with zeros, no '='
C14_HexPacking ==
    (Cleaned("cleanTOTPSecret") /\ totp.format = "hex"
         /\ Len(CleanedText(secret)) % 2 = 0)
        => LET bytes == RefHexBytes(CleanedText(secret))
           IN /\ totp.cleanSecret = ReferencePack(bytes)
              /\ Len(totp.cleanSecret) * 5 >= 8 * Len(bytes)
              /\ Len(totp.cleanSecret) * 5 < 8 * Len(bytes) + 5
              /\ \A i \in 1..Len(totp.cleanSecret) : totp.cleanSecret[i] # 61

\* "48656c6c6f20576f726c64" has been packed to "JBSWY3DPEBLW64TMMQ", the
\* encoding of the 11 bytes of "Hello World"
C14_Witness ==
    /\ Cleaned("cleanTOTPSecret")
    /\ secret = HelloWorldHex
    /\ totp.format = "hex"
    /\ totp.cleanSecret =
           <<74, 66, 83, 87, 89, 51, 68, 80, 69, 66, 76, 87, 54, 52, 84, 77, 77, 81>>

\* C15: detectSecretFormat returns what the specified classifier returns:
\* WordPhrase only for two or more non-empty tokens separated by a space
C15_Classifier ==
    Cleaned("detectSecretFormat") => totp.format = SpecifiedFormat(secret)

\* C16 as stated: every phrase of two or more words separated by spaces,
\* "Hello World Secret" among them, is returned as the 5-bit packing of its
\* UTF-8 bytes, ceil(8n/5) symbols long
C16_Original ==
    (Cleaned("cleanTOTPSecret") /\ HasTwoTokens(secret))
        => LET bytes == TextEncoderEncode(
                            ToUpperCase(SelectSeq(secret, LAMBDA u : ~IsJsWhiteSpace(u))))
           IN /\ totp.cleanSecret = ReferencePack(bytes)
              /\ Len(totp.cleanSecret) = (8 * Len(bytes) + 4) \div 5

\* C16 amended: a phrase of two or more words whose cleaned form is neither
\* canonical nor hexadecimal is returned as the 5-bit packing of the UTF-8
\* bytes of the phrase without whitespace and in upper case, ceil(8n/5)
\* canonical symbols; a phrase whose cleaned form is canonical is returned
\* as that cleaned form
C16_WordPhrase ==
    (Cleaned("cleanTOTPSecret") /\ HasTwoTokens(secret))
        => LET cleaned == CleanedText(secret)
               bytes == TextEncoderEncode(
                            ToUpperCase(SelectSeq(secret, LAMBDA u : ~IsJsWhiteSpace(u))))
           IN IF IsBase32Text(cleaned) THEN totp.cleanSecret = cleaned
              ELSE IF IsHexText(cleaned) THEN TRUE
              ELSE /\ totp.cleanSecret = ReferencePack(bytes)
                   /\ Len(totp.cleanSecret) = (8 * Len(bytes) + 4) \div 5
                   /\ \A i \in 1..Len(totp.cleanSecret) :
                          IsBase32Char(totp.cleanSecret[i])

\* "pass word 1" has been packed: 9 bytes, 15 symbols
C16_Witness ==
    /\ Cleaned("cleanTOTPSecret")
    /\ secret = <<112, 97, 115, 115, 32, 119, 111, 114, 100, 32, 49>>
    /\ totp.format = "words"
    /\ Len(totp.cleanSecret) = 15

\* C17: for an input classified as mixed that is neither canonical nor
\* hexadecimal, cleanTOTPSecret returns the 5-bit packing of the UTF-8
\* bytes of the cleaned text, never the cleaned text itself
C17_AmbiguousFallback ==
    (Cleaned("cleanTOTPSecret") /\ totp.format = "mixed"
         /\ CleanedText(secret) # <<>>)
        => /\ totp.cleanSecret = ReferencePack(TextEncoderEncode(CleanedText(secret)))
           /\ totp.cleanSecret # CleanedText(secret)

\* C18: when the cleaned form of s is canonical, cleanTOTPSecret(s) is that
\* cleaned form: separators removed, upper case, no bits re-encoded
C18_CanonicalKept ==
    (Cleaned("cleanTOTPSecret") /\ IsBase32Text(CleanedText(secret)))
        => totp.cleanSecret = CleanedText(secret)

\* "jbsw y3dp-ehpk_3pxp=" has been returned as "JBSWY3DPEHPK3PXP="
C18_Witness ==
    /\ Cleaned("cleanTOTPSecret")
    /\ totp.format = "base32"
    /\ Len(secret) = 20
    /\ totp.cleanSecret =
           <<74, 66, 83, 87, 89, 51, 68, 80, 69, 72, 80, 75, 51, 80, 88, 80, 61>>

(***************************************************************************)
(* Properties of parseOTPAuthURI and generateTOTPConfig                    *)
(***************************************************************************)
\* the URIs of the model that are well formed (new URL takes them), have the
\* scheme otpauth in any case of the letters, and the host totp: the
\* authority "totp", also with user information in front
IsTotpUri(parts) ==
    /\ parts.scheme \in {<<111, 116, 112, 97, 117, 116, 104>>,
                         <<79, 116, 112, 65, 117, 116, 104>>}
    /\ parts.sep = <<58, 47, 47>>
    /\ parts.authority \in {<<116, 111, 116, 112>>, <<117, 64, 116, 111, 116, 112>>}

\* the first non-empty segment of each path of the model, as the URL parser
\* lists the segments: "a", "a", "a%20b" for "/a b", "%C3%A9" for "/./é"
ExpectedLabel(path) ==
    IF path \in {<<47, 97>>, <<47, 47, 97, 47, 98>>} THEN Defined(<<97>>)
    ELSE IF path = <<47, 97, 32, 98>> THEN Defined(<<97, 37, 50, 48, 98>>)
    ELSE IF path = <<47, 46, 47, 233>> THEN Defined(<<37, 67, 51, 37, 65, 57>>)
    ELSE Undefined

\* the secret each query of the model carries: "g2", "g2", "g 2A"
ExpectedSecret(query) ==
    IF query \in {<<63, 115, 101, 99, 114, 101, 116, 61, 103, 50>>,
                  SecretDigitsPeriod}
        THEN Defined(<<103, 50>>)
    ELSE IF query = <<63, 115, 101, 99, 114, 101, 116, 61, 103, 43, 50, 37, 52, 49>>
        THEN Defined(<<103, 32, 50, 65>>)
    ELSE Undefined

ExpectedIssuer(query) ==
    IF query \in {<<63, 105, 115, 115, 117, 101, 114, 61, 105>>,
                  IssuerAlgorithm}
        THEN Defined(<<105>>)
    ELSE Undefined

C20_Original ==
    (totp.fn = "parseOTPAuthURI" /\ IsTotpUri(totp.parts)
         /\ ~ExpectedSecret(totp.parts.query).def)
        => totp.parsed.isNull

\* C20 amended: for such a URI parseOTPAuthURI returns an object whose
\* secret is undefined, not the failure value; generateTOTPConfig, which
\* takes a string that starts with "otpauth://" for a URI, rejects it: it
\* generates no configuration and reports the invalid URI
C20_NoSecretRejected ==
    (IsTotpUri(totp.parts) /\ ~ExpectedSecret(totp.parts.query).def)
        => /\ totp.fn = "parseOTPAuthURI"
                  => ~totp.parsed.isNull /\ ~totp.parsed.secret.def
           /\ (totp.fn = "generateTOTPConfig" /\ StartsWith(secret, OTPAUTH_PREFIX))
                  => /\ totp.totpConfig.isNull
                     /\ totp.localError = ERR_INVALID_URI

\* "otpauth://totp/a?issuer=i&algorithm=SHA1" has been through generateTOTPConfig, which
\* parsed it and raised the error of the invalid URI
C20_Witness ==
    /\ totp.fn = "generateTOTPConfig"
    /\ totp.parts.path = <<47, 97>>
    /\ totp.parts.query = IssuerAlgorithm
    /\ StartsWith(secret, OTPAUTH_PREFIX)
    /\ IsTotpUri(totp.parts)
    /\ ~totp.parsed.isNull
    /\ totp.parsed.issuer.def
    /\ totp.totpConfig.isNull
    /\ totp.localError = ERR_INVALID_URI

(***************************************************************************)
(* Properties of the normalizer applied to its own output                  *)
(***************************************************************************)
\* C26: cleanTOTPSecret(cleanTOTPSecret(s)) = cleanTOTPSecret(s) for every s,
\* whichever format s was detected as
C26_Idempotent ==
    Cleaned("cleanTOTPSecret") => cleanTOTPSecret(totp.cleanSecret) = totp.cleanSecret

\* the packed bytes of "pass word 1" have been returned, and normalizing
\* them again detects the canonical alphabet and returns them as they are
C26_Witness ==
    /\ Cleaned("cleanTOTPSecret")
    /\ totp.format = "words"
    /\ secret = <<112, 97, 115, 115, 32, 119, 111, 114, 100, 32, 49>>
    /\ totp.cleanSecret # CleanedText(secret)
    /\ detectSecretFormat(totp.cleanSecret) = "base32"
    /\ cleanTOTPSecret(totp.cleanSecret) = totp.cleanSecret

(***************************************************************************)
(* Properties of the display helpers of utils/crypto.ts                    *)
(***************************************************************************)
Assessed == util.fn = "assessPasswordStrength"
Summarized == util.fn = "getEncryptedDataSummary"

C30_SummaryFits ==
    Summarized =>
        IF Len(util.text) <= util.maxLength
        THEN util.summary = util.text
        ELSE /\ Len(util.summary) <= util.maxLength
             /\ \E i \in 0..(Len(util.summary) - 3) :
                    /\ SubSeq(util.summary, i + 1, i + 3) = <<46, 46, 46>>
                    /\ SubSeq(util.summary, 1, i) = SubSeq(util.text, 1, i)
                    /\ SubSeq(util.summary, i + 4, Len(util.summary))
                         = SubSeq(util.text,
                                  Len(util.text) - (Len(util.summary) - i - 3) + 1,
                                  Len(util.text))

(***************************************************************************)
(* Properties of useQRGenerator and the panels                             *)
(***************************************************************************)
\* the static text is "a" and is what the panel shows
TypedA ==
    /\ state.currentMode = "static"
    /\ state.staticInput = <<97>>

\* C21: in static mode, once staticInput is a non-empty text of at most 500
\* characters and no further input event occurs, the debounce timer fires,
\* generateQR runs for the text and qrResult becomes the successful result
\* generated from it, unless the encoder fails
C21_Live ==
    TypedA ~> \/ ~TypedA
              \/ state.qrResult.success /\ state.qrResult.dataURL = <<97>>
              \/ state.qrResult.error = "QR_GENERATION_FAILED"

\* a text validateStaticInput is to refuse, and the message it is to give
Refused(text) ==
    IF \A i \in 1..Len(text) : IsJsWhiteSpace(text[i]) THEN "EMPTY_INPUT"
    ELSE IF Len(text) > 500 THEN "INPUT_TOO_LONG"
    ELSE NoError

\* C22: for a text that is empty, blank or longer than 500 characters
\* generateStaticQR returns success = false with the message of the case and
\* does not call the encoder, and the hook never holds a successful qrResult
\* made from such a text
C22_InvalidBlocked ==
    /\ \A text \in UserInputs.staticInput, encodes \in BOOLEAN :
           Refused(text) # NoError
               => generateStaticQR(text, encodes) =
                      [success |-> FALSE, dataURL |-> <<>>,
                       error |-> Refused(text), encoder |-> FALSE]
    /\ state.qrResult.success => Refused(state.qrResult.dataURL) = NoError

\* generateQR has run for the text of 501 letters and left the message of
\* the length check in qrResult and error
C22_Witness ==
    /\ Len(state.staticInput) = 501
    /\ ~state.isLoading
    /\ state.qrResult = [success |-> FALSE, dataURL |-> <<>>,
                         error |-> "INPUT_TOO_LONG", encoder |-> FALSE]
    /\ state.error = "INPUT_TOO_LONG"

\* C23: after handleModeChange(m) qrResult is never a result generated from
\* the content of another mode: a successful result made from a static text
\* is held in static mode only
C23_NoStaleResult ==
    (state.qrResult.success /\ state.qrResult.dataURL \in UserInputs.staticInput)
        => state.currentMode = "static"

\* C27: handleModeChange(m) sets currentMode to m and error and qrResult to
\* null and leaves the other fields of the state as they are; no other step
\* changes currentMode
C27_ModeSwitchFrame ==
    [][(state'.currentMode # state.currentMode
           \/ \E mode \in UserInputs.currentMode : HandleModeChange(mode))
        => /\ state'.error = NoError
           /\ state'.qrResult = NoQR
           /\ \E mode \in UserInputs.currentMode :
                  state' = [state EXCEPT !.currentMode = mode, !.error = NoError,
                                         !.qrResult = NoQR]
           /\ state'.staticInput = state.staticInput
           /\ state'.totpSecret = state.totpSecret
           /\ state'.totpConfig = state.totpConfig
           /\ state'.encryptInput = state.encryptInput
           /\ state'.encryptPassword = state.encryptPassword
           /\ state'.encryptedPayload = state.encryptedPayload
           /\ state'.isLoading = state.isLoading]_vars

\* the tab of the dynamic mode has been clicked while the static text was
\* "a", and the text is still there
C27_Witness ==
    /\ state.currentMode = "dynamic"
    /\ rendered.state.currentMode = "static"
    /\ state.staticInput = <<97>>
    /\ state.qrResult = NoQR
    /\ state.error = NoError

\* the envelope in encryptedPayload was delivered for the plaintext and the
\* password as they are, and the user has done nothing since
DeliveredForInputs ==
    \E i \in 1..Len(issued) :
        /\ issued[i].env = state.encryptedPayload
        /\ issued[i].at = events
        /\ issued[i].p = state.encryptInput
        /\ issued[i].w = state.encryptPassword

\* C24: for a valid plaintext and password that stay unchanged, once the
\* payload has been delivered through onEncryptedPayloadChange no further
\* encryption is started
C24_EncryptsOnce ==
    [][(pending.enc = {} /\ pending'.enc # {}) => ~DeliveredForInputs]_vars

\* no auto-encrypt timeout is armed, no handleEncrypt is at its await, and
\* the panel has been rendered with the plaintext and password as they are
NoEncryptionDue ==
    /\ ~timers.encrypt
    /\ pending.enc = {}
    /\ rendered.state.currentMode = state.currentMode
    /\ rendered.state.encryptInput = state.encryptInput
    /\ rendered.state.encryptPassword = state.encryptPassword

\* C25: whenever encryptedPayload is not empty and no encryption is pending
\* or in flight, it decrypts under the current encryptPassword to the
\* current encryptInput
C25_PayloadMatchesInputs ==
    (state.encryptedPayload # <<>> /\ NoEncryptionDue)
        => DecryptAlone(state.encryptedPayload, state.encryptPassword)
               = DecSuccess(state.encryptInput)

\* C28: in DynamicQRPanel at most one refresh interval is active at any
\* time, and none is active while the totpConfig the panel shows and holds
\* is null, or when the panel is not mounted
C28_OneInterval ==
    /\ Cardinality(timers.interval) <= 1
    /\ (rendered.local.totpConfig.cfg.isNull /\ local.totpConfig.cfg.isNull)
           => timers.interval = {}
    /\ rendered.state.currentMode # "dynamic" => timers.interval = {}

\* the panel is mounted with a configuration, and the interval it runs is
\* the second one it has set, the first one being cleared
C28_Witness ==
    /\ rendered.state.currentMode = "dynamic"
    /\ ~rendered.local.totpConfig.cfg.isNull
    /\ timers.intervalRef = 2
    /\ timers.interval = {2}

====
